---------------------------- MODULE Spec2Model ----------------------------
(***************************************************************************)
(* Snapshot reconciliation and rolling-window engine of the foreclosure    *)
(* sales scraper (main.py, main_lightweight.py, highlighting.py,           *)
(* scraper.py).                                                            *)
(*                                                                         *)
(* Seven specifications share this module:                                  *)
(*   SpecWin  the window evaluator (is_within_30_days of highlighting.py   *)
(*            and scraper.py);                                             *)
(*   SpecScrape  scraper.py's row loop under an advancing wall clock;      *)
(*   SpecDates  both of them on date strings that are not dates;           *)
(*   SpecHL   highlighting.py's SheetsClient (get_previous_keys,           *)
(*            write_snapshot, apply_formatting);                           *)
(*   Spec     the run() of main.py and of main_lightweight.py: the         *)
(*            per-county passes and the 'All Data' stage over a            *)
(*            spreadsheet whose API calls may fail;                        *)
(*   SpecFetch  main.py's scrape_county_sales with its retries;            *)
(*   SpecRace   two passes in main.py's prepend_snapshot on one sheet.     *)
(* Strings are TLA+ strings; str.strip, str.lower, str.startswith and      *)
(* strptime are computed character by character.                           *)
(***************************************************************************)
EXTENDS Integers, Sequences, FiniteSets, TLC

VARIABLES
    \* ---- SpecWin: window evaluator and scraper.py row loop
    clock,          \* datetime.now(): [date |-> <<y, m, d>>, H, M]
    ticks,          \* number of clock advances so far (bounded)
    wIn,            \* arguments of an is_within_30_days call: [s, today], with
                    \* the date each module's parser is expected to read
    wOut,           \* its results: [done, hl |-> BOOLEAN, sc |-> BOOLEAN]
    s_pc,           \* position in scraper.scrape_county_sales
    sTable,         \* the scraped table: sequence of row records
    sIdx,           \* loop variable i of scrape_county_sales (rows done)
    sOut,           \* local list out
    sRefs,          \* reference date each judged row was tested against
    \* ---- SpecHL: highlighting.py's SheetsClient on one sheet
    hlSheet,        \* the values the sheet holds: a sequence of rows of cells
    hl_pc,          \* "start", "keyed", "written" or "failed"
    hlRows,         \* the batch handed to write_snapshot as rows
    hlKeys,         \* prev_keys: the caller's set, or what get_previous_keys returned
    hlReadOk,       \* whether the last get_values call succeeded
    hlNewKeys,      \* write_snapshot's local new_keys
    hlRet,          \* write_snapshot's return value
    hlFormat,       \* sheet row indices (0-based) apply_formatting highlights
    hlWrites,       \* number of write_snapshot calls so far (bounded)
    \* ---- Spec: main.py's run() over a spreadsheet
    sheets,         \* the spreadsheet: sheet name -> [exists, grid of cells]
    pc,             \* position in run(): "idle", "scrape", "county_read",
                    \* "pp_read", "pp_clear", "pp_write", "ow_clear",
                    \* "ow_write", "all_start" or "all_read"
    passNo,         \* number of completed passes of run()
    first_run,      \* run()'s first_run
    ci,             \* position of the county loop in TARGET_COUNTIES (from 1)
    all_data_rows,  \* run()'s all_data_rows
    df_county,      \* the current county's batch, one row per record
    existing,       \* what run()'s own get_values returned
    existing_ids,   \* run()'s existing_ids
    existing_pairs, \* run()'s existing_pairs
    wCtx,           \* caller of the snapshot writer: "county" or "all"
    wMode,          \* "overwrite" (overwrite_with_snapshot), "prepend"
                    \* (prepend_snapshot) or "none"
    wRows,          \* the data rows handed to the snapshot writer
    wIdx,           \* new_row_indices handed to prepend_snapshot
    existing2,      \* what prepend_snapshot's own get_values returned
    wValues,        \* the values handed to write_values
    log,            \* the Sheets API requests of the current pass, in order
    faults,         \* number of failed Sheets API calls so far (bounded)
    readOk,         \* whether run()'s own get_values succeeded
    prevBatch,      \* county -> the batch of its latest scrape
    prevDone,       \* county -> its latest loop body ended without exception
    diffed,         \* whose diff wIdx holds: "none", "county" or "all"
    decided,        \* what the county's mode choice saw: [batch, first_run,
                    \* existed, empty, same]
    prog,           \* the entry point that runs over the spreadsheet:
                    \* "main" (main.py) or "light" (main_lightweight.py)
    \* ---- SpecFetch: main.py's scrape_county_sales and goto_with_retry
    f_pc,           \* position in scrape_county_sales: "idle", "goto",
                    \* "loaded", "rows" or "returned"
    attempt,        \* loop variable attempt of scrape_county_sales
    g_attempt,      \* loop variable attempt of goto_with_retry
    last_exc,       \* goto_with_retry's last_exc is set
    navs,           \* page.goto calls made by the running goto_with_retry
    attempts,       \* attempts scrape_county_sales has started
    sleeps,         \* the asyncio.sleep calls so far: [by, attempt, secs]
    fTable,         \* the table the list page shows in this attempt
    fIdx,           \* loop variable i of the row loop (rows done)
    results,        \* local list results: [pid, built], built being the
                    \* attempt that appended the row
    failedRows,     \* an attempt that failed later had appended rows
    fRet,           \* the list scrape_county_sales returned
    \* ---- SpecRace: two passes in main.py's prepend_snapshot on one sheet
    rSheet,         \* the values the shared sheet holds
    rHistory,       \* the rows the sheet held before the two passes
    r_pc,           \* per pass: "read", "clear", "write" or "done"
    rExisting,      \* per pass: its local existing
    rBatch          \* per pass: the data rows of the block it prepends

hlVars == <<hlSheet, hl_pc, hlRows, hlKeys, hlReadOk, hlNewKeys, hlRet, hlFormat,
            hlWrites>>

winVars == <<clock, ticks, wIn, wOut, s_pc, sTable, sIdx, sOut, sRefs>>

mainVars == <<sheets, pc, passNo, first_run, ci, all_data_rows, df_county,
              existing, existing_ids, existing_pairs, wCtx, wMode, wRows, wIdx,
              existing2, wValues, log, faults, readOk, prevBatch, prevDone,
              diffed, decided, prog>>

fetchVars == <<f_pc, attempt, g_attempt, last_exc, navs, attempts, sleeps,
               fTable, fIdx, results, failedRows, fRet>>

raceVars == <<rSheet, rHistory, r_pc, rExisting, rBatch>>

\* what the actions of one specification leave alone
notWin == <<hlVars, mainVars, fetchVars, raceVars>>
notHL == <<winVars, mainVars, fetchVars, raceVars>>
notFetch == <<winVars, hlVars, mainVars, raceVars>>
notRace == <<winVars, hlVars, mainVars, fetchVars>>

-----------------------------------------------------------------------------
(* Python str helpers *)

IsSpace(c) == c \in {" "}

RECURSIVE LStrip(_)
LStrip(s) ==
    IF Len(s) > 0 /\ IsSpace(SubSeq(s, 1, 1))
    THEN LStrip(SubSeq(s, 2, Len(s)))
    ELSE s

RECURSIVE RStrip(_)
RStrip(s) ==
    IF Len(s) > 0 /\ IsSpace(SubSeq(s, Len(s), Len(s)))
    THEN RStrip(SubSeq(s, 1, Len(s) - 1))
    ELSE s

\* str.strip()
Strip(s) == RStrip(LStrip(s))

\* str.startswith(p)
StartsWith(s, p) == Len(s) >= Len(p) /\ SubSeq(s, 1, Len(p)) = p

LowerChar(c) ==
    CASE c = "A" -> "a" [] c = "B" -> "b" [] c = "C" -> "c" [] c = "D" -> "d"
      [] c = "E" -> "e" [] c = "F" -> "f" [] c = "G" -> "g" [] c = "H" -> "h"
      [] c = "I" -> "i" [] c = "J" -> "j" [] c = "K" -> "k" [] c = "L" -> "l"
      [] c = "M" -> "m" [] c = "N" -> "n" [] c = "O" -> "o" [] c = "P" -> "p"
      [] c = "Q" -> "q" [] c = "R" -> "r" [] c = "S" -> "s" [] c = "T" -> "t"
      [] c = "U" -> "u" [] c = "V" -> "v" [] c = "W" -> "w" [] c = "X" -> "x"
      [] c = "Y" -> "y" [] c = "Z" -> "z" [] OTHER -> c

\* str.lower()
RECURSIVE Lower(_)
Lower(s) ==
    IF Len(s) = 0 THEN ""
    ELSE LowerChar(SubSeq(s, 1, 1)) \o Lower(SubSeq(s, 2, Len(s)))

Min(S) == CHOOSE x \in S : \A y \in S : x <= y

-----------------------------------------------------------------------------
(* datetime: calendar dates <<y, m, d>>, datetimes [date, H, M] *)

IsLeap(y) == (y % 4 = 0) /\ ((y % 100 # 0) \/ (y % 400 = 0))

DaysInMonth(y, m) ==
    CASE m \in {1, 3, 5, 7, 8, 10, 12} -> 31
      [] m \in {4, 6, 9, 11} -> 30
      [] OTHER -> IF IsLeap(y) THEN 29 ELSE 28

\* date + timedelta(days=1)
NextDay(d) ==
    IF d[3] < DaysInMonth(d[1], d[2]) THEN <<d[1], d[2], d[3] + 1>>
    ELSE IF d[2] < 12 THEN <<d[1], d[2] + 1, 1>>
    ELSE <<d[1] + 1, 1, 1>>

\* date + timedelta(days=n), n >= 0
RECURSIVE AddDays(_, _)
AddDays(d, n) == IF n = 0 THEN d ELSE AddDays(NextDay(d), n - 1)

\* datetime + timedelta(days=n): the time of day is kept
DtAddDays(t, n) == [t EXCEPT !.date = AddDays(t.date, n)]

\* date.__le__: comparison of (year, month, day)
DateLE(a, b) ==
    \/ a[1] < b[1]
    \/ a[1] = b[1] /\ a[2] < b[2]
    \/ a[1] = b[1] /\ a[2] = b[2] /\ a[3] <= b[3]

\* date.toordinal(): days since 0001-01-01, plus one
RECURSIVE DaysBeforeMonth(_, _)
DaysBeforeMonth(y, m) ==
    IF m = 1 THEN 0 ELSE DaysBeforeMonth(y, m - 1) + DaysInMonth(y, m - 1)

ToOrdinal(d) ==
    LET y == d[1] - 1
    IN  y * 365 + (y \div 4) - (y \div 100) + (y \div 400)
        + DaysBeforeMonth(d[1], d[2]) + d[3]

Pad2(n) == IF n < 10 THEN "0" \o ToString(n) ELSE ToString(n)

\* strftime('%Y-%m-%d') and strftime('%m/%d/%Y') (four-digit years)
StrfYmd(d) == ToString(d[1]) \o "-" \o Pad2(d[2]) \o "-" \o Pad2(d[3])
StrfMdY(d) == Pad2(d[2]) \o "/" \o Pad2(d[3]) \o "/" \o ToString(d[1])

\* strftime('%A'): date.weekday() is (toordinal() + 6) % 7, Monday = 0
StrfA(d) ==
    LET w == (ToOrdinal(d) + 6) % 7
    IN  CASE w = 0 -> "Monday" [] w = 1 -> "Tuesday" [] w = 2 -> "Wednesday"
          [] w = 3 -> "Thursday" [] w = 4 -> "Friday" [] w = 5 -> "Saturday"
          [] OTHER -> "Sunday"

-----------------------------------------------------------------------------
(* datetime.strptime(s, fmt).  A format is a sequence of directives        *)
(* ("m", "d", "Y", "H", "I", "M", "S", "p"), blanks (" ", one or more      *)
(* whitespace characters) and literal characters.                          *)

IsDigit(c) == c \in {"0", "1", "2", "3", "4", "5", "6", "7", "8", "9"}

DigitVal(c) ==
    CASE c = "0" -> 0 [] c = "1" -> 1 [] c = "2" -> 2 [] c = "3" -> 3
      [] c = "4" -> 4 [] c = "5" -> 5 [] c = "6" -> 6 [] c = "7" -> 7
      [] c = "8" -> 8 [] OTHER -> 9

\* length of the run of digits of s that starts at position i
RECURSIVE DigitRun(_, _)
DigitRun(s, i) ==
    IF i <= Len(s) /\ IsDigit(SubSeq(s, i, i)) THEN 1 + DigitRun(s, i + 1) ELSE 0

RECURSIVE SpaceRun(_, _)
SpaceRun(s, i) ==
    IF i <= Len(s) /\ IsSpace(SubSeq(s, i, i)) THEN 1 + SpaceRun(s, i + 1) ELSE 0

\* value of the n digits of s from position i on
RECURSIVE NumVal(_, _, _)
NumVal(s, i, n) ==
    IF n = 0 THEN 0
    ELSE NumVal(s, i, n - 1) * 10 + DigitVal(SubSeq(s, i + n - 1, i + n - 1))

NumDirectives == {"m", "d", "Y", "H", "I", "M", "S"}

\* the regular expression strptime uses for a numeric directive
FieldOk(dir, n, v) ==
    CASE dir = "m" -> n \in 1..2 /\ v \in 1..12
      [] dir = "d" -> n \in 1..2 /\ v \in 1..31
      [] dir = "Y" -> n = 4
      [] dir = "H" -> n \in 1..2 /\ v \in 0..23
      [] dir = "I" -> n \in 1..2 /\ v \in 1..12
      [] dir = "M" -> n \in 1..2 /\ v \in 0..59
      [] OTHER     -> n \in 1..2 /\ v \in 0..61

NoFields == [ok |-> FALSE, m |-> 1, d |-> 1, Y |-> 1900, H |-> 0, I |-> 12,
             M |-> 0, S |-> 0, p |-> "AM", hasI |-> FALSE]

RECURSIVE Match(_, _, _, _)
Match(s, i, fmt, acc) ==
    IF Len(fmt) = 0
    THEN IF i = Len(s) + 1 THEN [acc EXCEPT !.ok = TRUE] ELSE NoFields
    ELSE LET dir == Head(fmt)
         IN  IF dir \in NumDirectives
             THEN LET n == DigitRun(s, i)
                      v == NumVal(s, i, n)
                  IN  IF FieldOk(dir, n, v)
                      THEN Match(s, i + n, Tail(fmt),
                                 [acc EXCEPT ![dir] = v,
                                             !.hasI = (@ \/ dir = "I")])
                      ELSE NoFields
             ELSE IF dir = "p"
             THEN IF i + 1 <= Len(s) /\ Lower(SubSeq(s, i, i + 1)) \in {"am", "pm"}
                  THEN Match(s, i + 2, Tail(fmt),
                             [acc EXCEPT !.p = Lower(SubSeq(s, i, i + 1))])
                  ELSE NoFields
             ELSE IF dir = " "
             THEN IF SpaceRun(s, i) >= 1
                  THEN Match(s, i + SpaceRun(s, i), Tail(fmt), acc)
                  ELSE NoFields
             ELSE IF i <= Len(s) /\ SubSeq(s, i, i) = dir
                  THEN Match(s, i + 1, Tail(fmt), acc)
                  ELSE NoFields

NoDate == [ok |-> FALSE, date |-> <<1, 1, 1>>, H |-> 0, M |-> 0]

\* strptime: the parsed datetime, or NoDate where Python raises ValueError
Strptime(s, fmt) ==
    LET f == Match(s, 1, fmt, NoFields)
    IN  IF ~f.ok THEN NoDate
        ELSE IF f.Y < 1 \/ f.d > DaysInMonth(f.Y, f.m) THEN NoDate
        ELSE [ok |-> TRUE, date |-> <<f.Y, f.m, f.d>>,
              H |-> IF f.hasI
                    THEN (IF f.p = "pm" THEN (f.I % 12) + 12 ELSE f.I % 12)
                    ELSE f.H,
              M |-> f.M]

FmtMdYIMp == <<"m", "/", "d", "/", "Y", " ", "I", ":", "M", " ", "p">>
FmtMdYHM  == <<"m", "/", "d", "/", "Y", " ", "H", ":", "M">>
FmtMdY    == <<"m", "/", "d", "/", "Y">>
FmtYmdHMS == <<"Y", "-", "m", "-", "d", " ", "H", ":", "M", ":", "S">>
FmtYmd    == <<"Y", "-", "m", "-", "d">>
FmtMdYDash == <<"m", "-", "d", "-", "Y">>
FmtDmY    == <<"d", "/", "m", "/", "Y">>

\* for f in fmts: try strptime(date_str.strip(), f) ... return None
RECURSIVE TryFormats(_, _)
TryFormats(s, fmts) ==
    IF Len(fmts) = 0 THEN NoDate
    ELSE LET r == Strptime(Strip(s), Head(fmts))
         IN  IF r.ok THEN r ELSE TryFormats(s, Tail(fmts))


-----------------------------------------------------------------------------
(* Window evaluator: highlighting.py and scraper.py *)

WINDOW_DAYS == 30

\* highlighting.today_dt(), scraper's datetime.now()
today_dt == clock

HL_fmts == <<FmtMdYIMp, FmtMdYHM, FmtMdY, FmtYmdHMS, FmtYmd, FmtMdYDash, FmtDmY>>
SC_fmts == <<FmtMdYIMp, FmtMdYHM, FmtMdY, FmtYmdHMS, FmtYmd, FmtMdYDash>>

\* highlighting.parse_date
parse_date(date_str) ==
    IF date_str = "" THEN NoDate ELSE TryFormats(date_str, HL_fmts)

\* scraper.parse_sale_date
parse_sale_date(date_str) ==
    IF date_str = "" THEN NoDate ELSE TryFormats(date_str, SC_fmts)

\* a mutant of window_range: the window end is WINDOW_DAYS days after the start
window_range_plus30(today) ==
    LET t == IF today.ok THEN today ELSE today_dt
    IN  [start |-> t, end |-> DtAddDays(t, WINDOW_DAYS)]

\* highlighting.window_range; today = NoDate stands for today=None
window_range(today) ==
    LET t == IF today.ok THEN today ELSE today_dt
    IN  [start |-> t, end |-> DtAddDays(t, WINDOW_DAYS - 1)]

\* highlighting.is_within_30_days
HL_is_within_30_days(date_str, today) ==
    LET dt == parse_date(date_str)
    IN  IF ~dt.ok THEN FALSE
        ELSE LET w == window_range(today)
             IN  DateLE(w.start.date, dt.date) /\ DateLE(dt.date, w.end.date)

\* a mutant of SC_is_within_30_days: an unreadable date counts as in the window
SC_is_within_30_days_unread(date_str, today) ==
    LET dt == parse_sale_date(date_str)
    IN  IF ~dt.ok THEN TRUE
        ELSE LET t == IF today.ok THEN today ELSE today_dt
                 end == DtAddDays(t, WINDOW_DAYS - 1)
             IN  DateLE(t.date, dt.date) /\ DateLE(dt.date, end.date)

\* scraper.is_within_30_days
SC_is_within_30_days(date_str, today) ==
    LET dt == parse_sale_date(date_str)
    IN  IF ~dt.ok THEN FALSE
        ELSE LET t == IF today.ok THEN today ELSE today_dt
                 end == DtAddDays(t, WINDOW_DAYS - 1)
             IN  DateLE(t.date, dt.date) /\ DateLE(dt.date, end.date)

-----------------------------------------------------------------------------
(* Inputs of SpecWin *)

\* greatest number of clock advances
MaxTicks == 2
\* greatest number of rows of a scraped table
MaxScrapeRows == 2

Dt(date, h, m) == [ok |-> TRUE, date |-> date, H |-> h, M |-> m]

\* reference datetimes handed to is_within_30_days as today=
Todays ==
    { Dt(<<2025, 1, 1>>, 0, 0), Dt(<<2025, 1, 1>>, 23, 59),
      Dt(<<2024, 12, 15>>, 12, 0), Dt(<<2024, 2, 1>>, 8, 30) }

WinDates ==
    { <<2024, 12, 31>>, <<2025, 1, 1>>, <<2025, 1, 2>>, <<2025, 1, 13>>,
      <<2025, 1, 29>>, <<2025, 1, 30>>, <<2025, 1, 31>>, <<2025, 2, 1>>,
      <<2024, 12, 14>>, <<2024, 12, 15>>, <<2025, 1, 12>>, <<2025, 1, 14>>,
      <<2024, 1, 31>>, <<2024, 2, 1>>, <<2024, 2, 29>>, <<2024, 3, 1>>,
      <<2024, 3, 2>> }

Known(date) == [ok |-> TRUE, date |-> date]
Unknown == [ok |-> FALSE, date |-> <<1, 1, 1>>]

\* a date string with the calendar date each parser is expected to read
In(s, hl, sc) == [s |-> s, hl |-> hl, sc |-> sc]

\* day/month/year text: read as month/day/year when the day is at most 12
DmYInput(d) ==
    LET s == Pad2(d[3]) \o "/" \o Pad2(d[2]) \o "/" \o ToString(d[1])
    IN  IF d[3] <= 12
        THEN In(s, Known(<<d[1], d[3], d[2]>>), Known(<<d[1], d[3], d[2]>>))
        ELSE In(s, Known(d), Unknown)

WinInputs ==
    UNION { { In(StrfMdY(d), Known(d), Known(d)),
              In(StrfYmd(d), Known(d), Known(d)),
              In(ToString(d[2]) \o "/" \o ToString(d[3]) \o "/" \o ToString(d[1]),
                 Known(d), Known(d)),
              In(Pad2(d[2]) \o "-" \o Pad2(d[3]) \o "-" \o ToString(d[1]),
                 Known(d), Known(d)),
              In(StrfMdY(d) \o " 11:59 PM", Known(d), Known(d)),
              In(StrfMdY(d) \o " 00:00", Known(d), Known(d)),
              In(StrfYmd(d) \o " 23:59:59", Known(d), Known(d)),
              In("  " \o StrfMdY(d) \o " ", Known(d), Known(d)),
              DmYInput(d) } : d \in WinDates }
    \cup { In("", Unknown, Unknown), In("TBD", Unknown, Unknown),
           In("02/30/2025", Unknown, Unknown),
           In("2025-01-15T10:00", Unknown, Unknown),
           In("01/15/25", Unknown, Unknown),
           In("1/15/2025 13:00 PM", Unknown, Unknown) }

\* a row of the scraped table: the text of its cells
ScrapeRow(pid, sales_date) ==
    [pid |-> pid, sales_date |-> sales_date, address |-> "12 Main",
     defendant |-> "Doe", approx_judgment |-> "$1"]

ScrapeRows ==
    { ScrapeRow("P1", "01/01/2025"), ScrapeRow("P2", "01/31/2025"),
      ScrapeRow("P3", "01/15/2025"), ScrapeRow("P4", "TBD") }

RECURSIVE SeqsUpTo(_, _)
SeqsUpTo(S, n) ==
    IF n = 0 THEN {<<>>}
    ELSE LET shorter == SeqsUpTo(S, n - 1)
         IN  shorter \cup { Append(q, x) : q \in shorter, x \in S }

ScrapeTables == SeqsUpTo(ScrapeRows, MaxScrapeRows)

-----------------------------------------------------------------------------
(* SpecWin *)

NoCall == [s |-> "", hl |-> Unknown, sc |-> Unknown, today |-> NoDate]

InitScrape ==
    /\ clock \in { Dt(<<2025, 1, 1>>, 12, 0), Dt(<<2025, 1, 1>>, 23, 0) }
    /\ ticks = 0
    /\ wIn = NoCall
    /\ wOut = [done |-> FALSE, hl |-> FALSE, sc |-> FALSE]
    /\ s_pc = "idle"
    /\ sTable = <<>>
    /\ sIdx = 0
    /\ sOut = <<>>
    /\ sRefs = <<>>

\* the arguments of one call is_within_30_days(d, today=t)
InitWin ==
    /\ clock = Dt(<<2025, 1, 1>>, 12, 0)
    /\ ticks = 0
    /\ \E i \in WinInputs, t \in Todays :
          wIn = [s |-> i.s, hl |-> i.hl, sc |-> i.sc, today |-> t]
    /\ wOut = [done |-> FALSE, hl |-> FALSE, sc |-> FALSE]
    /\ s_pc = "idle"
    /\ sTable = <<>>
    /\ sIdx = 0
    /\ sOut = <<>>
    /\ sRefs = <<>>

\* the wall clock advances by one hour
Tick ==
    /\ ticks < MaxTicks
    /\ ticks' = ticks + 1
    /\ clock' = IF clock.H < 23
                THEN [clock EXCEPT !.H = @ + 1]
                ELSE [clock EXCEPT !.H = 0, !.date = NextDay(@)]
    /\ UNCHANGED <<wIn, wOut, s_pc, sTable, sIdx, sOut, sRefs>>
    /\ UNCHANGED notWin

\* the call is_within_30_days(wIn.s, today=wIn.today) of each module
EvalWindow ==
    /\ ~wOut.done
    /\ wOut' = [done |-> TRUE,
                hl |-> HL_is_within_30_days(wIn.s, wIn.today),
                sc |-> SC_is_within_30_days(wIn.s, wIn.today)]
    /\ UNCHANGED <<clock, ticks, wIn, s_pc, sTable, sIdx, sOut, sRefs>>
    /\ UNCHANGED notWin

\* scraper.scrape_county_sales up to the row loop (safe() is read as
\* returning the text of the cell)
ScrapeStart ==
    /\ s_pc = "idle"
    /\ \E outcome \in {"timeout", "nosales", "table"}, table \in ScrapeTables :
        /\ sTable' = IF outcome = "table" THEN table ELSE <<>>
        /\ s_pc' = IF outcome = "table" THEN "rows" ELSE "returned"
    /\ sIdx' = 0
    /\ sOut' = <<>>
    /\ sRefs' = <<>>
    /\ UNCHANGED <<clock, ticks, wIn, wOut>>
    /\ UNCHANGED notWin

\* one iteration of: for i in range(n)
ScrapeRowStep ==
    /\ s_pc = "rows"
    /\ sIdx < Len(sTable)
    /\ LET r == sTable[sIdx + 1]
       IN  /\ sRefs' = Append(sRefs, today_dt.date)
           /\ sOut' = IF SC_is_within_30_days(r.sales_date, NoDate)
                      THEN Append(sOut, <<r.pid, r.address, r.defendant,
                                          r.sales_date, r.approx_judgment>>)
                      ELSE sOut
    /\ sIdx' = sIdx + 1
    /\ UNCHANGED <<clock, ticks, wIn, wOut, s_pc, sTable>>
    /\ UNCHANGED notWin

\* return out
ScrapeReturn ==
    /\ s_pc = "rows"
    /\ sIdx = Len(sTable)
    /\ s_pc' = "returned"
    /\ UNCHANGED <<clock, ticks, wIn, wOut, sTable, sIdx, sOut, sRefs>>
    /\ UNCHANGED notWin

\* the caller goes on to the next county
ScrapeNext ==
    /\ s_pc = "returned"
    /\ s_pc' = "idle"
    /\ sTable' = <<>>
    /\ sIdx' = 0
    /\ sOut' = <<>>
    /\ sRefs' = <<>>
    /\ UNCHANGED <<clock, ticks, wIn, wOut>>
    /\ UNCHANGED notWin

NextWin == EvalWindow

NextScrape ==
    \/ Tick
    \/ ScrapeStart
    \/ ScrapeRowStep
    \/ ScrapeReturn
    \/ ScrapeNext

-----------------------------------------------------------------------------
(* SpecDates: date strings that are not dates *)

\* the date strings of WinInputs that one of the two parsers cannot read
BadInputs == { i \in WinInputs : ~i.hl.ok \/ ~i.sc.ok }

\* the reference datetimes they are judged against
BadTodays == { Dt(<<2025, 1, 1>>, 0, 0), Dt(<<2024, 12, 15>>, 12, 0) }

\* one call is_within_30_days(d, today=t) on such a string, next to calls of
\* scrape_county_sales, whose tables hold the sales date 'TBD'
InitBadDates ==
    /\ clock \in { Dt(<<2025, 1, 1>>, 12, 0), Dt(<<2025, 1, 1>>, 23, 0) }
    /\ ticks = 0
    /\ \E i \in BadInputs, t \in BadTodays :
          wIn = [s |-> i.s, hl |-> i.hl, sc |-> i.sc, today |-> t]
    /\ wOut = [done |-> FALSE, hl |-> FALSE, sc |-> FALSE]
    /\ s_pc = "idle"
    /\ sTable = <<>>
    /\ sIdx = 0
    /\ sOut = <<>>
    /\ sRefs = <<>>

NextDates ==
    \/ EvalWindow
    \/ Tick
    \/ ScrapeStart
    \/ ScrapeRowStep
    \/ ScrapeReturn
    \/ ScrapeNext

-----------------------------------------------------------------------------
(* Claims on the window evaluator *)

\* the claim's window: the date lies in [date(t), date(t) + 29], by day number
InClaimWindow(exp, t) ==
    /\ exp.ok
    /\ ToOrdinal(exp.date) - ToOrdinal(t.date) \in 0..(WINDOW_DAYS - 1)

\* C6: is_within_30_days(d, today=t) of highlighting.py and of scraper.py is
\* true exactly when the calendar date read from d lies in
\* [date(t), date(t) + 29], whatever the time of day of d and of t; with
\* t = 2025-01-01 the dates 2025-01-01 and 2025-01-30 are in the window and
\* 2025-01-31 and 2024-12-31 are not.
C6_WindowInclusive ==
    wOut.done =>
        /\ wOut.hl = InClaimWindow(wIn.hl, wIn.today)
        /\ wOut.sc = InClaimWindow(wIn.sc, wIn.today)
        /\ (wIn.today.date = <<2025, 1, 1>> /\ wIn.s \in {"2025-01-01", "2025-01-30"})
              => (wOut.hl /\ wOut.sc)
        /\ (wIn.today.date = <<2025, 1, 1>> /\ wIn.s \in {"2025-01-31", "2024-12-31"})
              => (~wOut.hl /\ ~wOut.sc)

\* the last day of the window, late in the day, is found in the window
C6_Witness ==
    /\ wOut.done
    /\ wIn.s = "2025-01-30"
    /\ wIn.today = Dt(<<2025, 1, 1>>, 23, 59)
    /\ wOut.hl
    /\ wOut.sc

\* C7: within one call of scraper.scrape_county_sales every row is tested
\* against one and the same reference date, also when the wall clock passes
\* midnight between two rows.
C7_OneReferenceDate ==
    \A i \in DOMAIN sRefs : \A j \in DOMAIN sRefs : sRefs[i] = sRefs[j]

\* two rows of one call have been judged
C7_Witness ==
    /\ s_pc = "returned"
    /\ Len(sRefs) = 2

\* the date strings of the inputs that scraper.py's parser cannot read
UnreadableTexts == { i.s : i \in { x \in WinInputs : ~x.sc.ok } }

\* the rows of the scraped table whose sales date lies in the window of the
\* reference date they were tested against
RowsInWindow ==
    { i \in 1..Len(sRefs) :
        InClaimWindow(parse_sale_date(sTable[i].sales_date), [date |-> sRefs[i]]) }

PidsInWindow(table, ref) ==
    LET InWin(r) == InClaimWindow(parse_sale_date(r.sales_date), [date |-> ref])
        kept == SelectSeq(table, InWin)
    IN  [k \in 1..Len(kept) |-> kept[k].pid]

\* C21: what scrape_county_sales returns is, for one 30-day window (that of
\* a date the wall clock showed during the call), exactly the rows of the
\* scraped table whose sales date lies in that window, in table order
C21_ReturnsWindowRows ==
    (s_pc = "returned" /\ Len(sTable) > 0) =>
        \E i \in 1..Len(sRefs) :
            [k \in 1..Len(sOut) |-> sOut[k][1]] = PidsInWindow(sTable, sRefs[i])

-----------------------------------------------------------------------------
(* The spreadsheet backend as the Sheets API presents it *)

RECURSIVE TrimRow(_)
TrimRow(r) ==
    IF Len(r) > 0 /\ r[Len(r)] = "" THEN TrimRow(SubSeq(r, 1, Len(r) - 1)) ELSE r

RECURSIVE DropEmptyTail(_)
DropEmptyTail(rows) ==
    IF Len(rows) > 0 /\ rows[Len(rows)] = <<>>
    THEN DropEmptyTail(SubSeq(rows, 1, Len(rows) - 1))
    ELSE rows

\* values().get(...).execute().get("values", []): trailing empty cells of a
\* row and trailing empty rows are omitted from the response
ApiValues(grid) == DropEmptyTail([i \in 1..Len(grid) |-> TrimRow(grid[i])])

\* SheetsClient.get_values: [] when the request raises
get_values(grid, ok) == IF ok THEN ApiValues(grid) ELSE <<>>

\* values().update(range=A1, body={"values": values}): the cells the payload
\* covers are overwritten, every other cell of the grid is left as it was
ApiUpdate(grid, values) ==
    LET n == IF Len(grid) > Len(values) THEN Len(grid) ELSE Len(values)
    IN  [i \in 1..n |->
            IF i > Len(values) THEN grid[i]
            ELSE IF i > Len(grid) THEN values[i]
            ELSE values[i] \o SubSeq(grid[i], Len(values[i]) + 1, Len(grid[i]))]

\* SheetsClient.clear: the request's error is swallowed
clear(grid, ok) == IF ok THEN <<>> ELSE grid

-----------------------------------------------------------------------------
(* highlighting.py: SheetsClient *)

\* r[k] (0-based k) for a row that may be shorter
CellOr(r, k) == IF Len(r) > k THEN r[k + 1] ELSE ""

\* the keys one row adds in get_previous_keys (lines 156-166)
PrevKeysOfRow(row) ==
    IF Len(row) = 0 THEN {}
    ELSE LET pid == Strip(CellOr(row, 0))
         IN  IF pid # "" THEN {pid}
             ELSE LET addr == Strip(CellOr(row, 1))
                      defn == Strip(CellOr(row, 2))
                  IN  IF addr # "" \/ defn # "" THEN {addr \o "|" \o defn} ELSE {}

\* a mutant of get_previous_keys: without a header no row is skipped
get_previous_keys_no_skip(vals) ==
    IF Len(vals) < 2 THEN {}
    ELSE LET hs == { i \in 1..Len(vals) :
                       Len(vals[i]) > 0 /\ Lower(Strip(vals[i][1])) = "property id" }
             start_idx == IF hs = {} THEN 0 ELSE Min(hs)
         IN  UNION { PrevKeysOfRow(vals[i]) : i \in (start_idx + 1)..Len(vals) }

\* SheetsClient.get_previous_keys on the values get_values returned
get_previous_keys(vals) ==
    IF Len(vals) < 2 THEN {}
    ELSE LET hs == { i \in 1..Len(vals) :
                       Len(vals[i]) > 0 /\ Lower(Strip(vals[i][1])) = "property id" }
             header_idx == IF hs = {} THEN -1 ELSE Min(hs) - 1
             start_idx == IF header_idx = -1
                          THEN (IF Len(vals) > 2 THEN 2 ELSE 0)
                          ELSE header_idx + 1
         IN  UNION { PrevKeysOfRow(vals[i]) : i \in (start_idx + 1)..Len(vals) }

\* a mutant of RowKey: the Property ID is not trimmed
RowKeyUntrimmed(r) ==
    LET pid == CellOr(r, 0)
    IN  IF pid # "" THEN pid
        ELSE Strip(CellOr(r, 1)) \o "|" \o Strip(CellOr(r, 2))

\* the key write_snapshot and apply_formatting derive for a row
RowKey(r) ==
    LET pid == Strip(CellOr(r, 0))
    IN  IF pid # "" THEN pid
        ELSE Strip(CellOr(r, 1)) \o "|" \o Strip(CellOr(r, 2))

\* write_snapshot's loop: the keys not in prev_keys
RECURSIVE NewKeys(_, _)
NewKeys(rows, prev_keys) ==
    IF Len(rows) = 0 THEN {}
    ELSE (IF RowKey(Head(rows)) \notin prev_keys THEN {RowKey(Head(rows))} ELSE {})
         \cup NewKeys(Tail(rows), prev_keys)

\* write_snapshot's banner (the arrow of the source is written ->)
snapshot_label ==
    LET w == window_range(NoDate)
    IN  "Snapshot for " \o StrfA(w.start.date) \o " - " \o StrfYmd(w.start.date)
        \o " -> " \o StrfYmd(w.end.date)

\* a mutant of HighlightRequests: data row idx is taken for sheet row idx + 1
HighlightRequestsNoBanner(rows, new_keys) ==
    { idx + 1 : idx \in { k \in 0..(Len(rows) - 1) : RowKey(rows[k + 1]) \in new_keys } }

\* the rows apply_formatting highlights: data row idx is sheet row idx + 2
HighlightRequests(rows, new_keys) ==
    { idx + 2 : idx \in { k \in 0..(Len(rows) - 1) : RowKey(rows[k + 1]) \in new_keys } }

HLHeaders == <<"Property ID", "Address", "Defendant", "Sales Date", "Approx Judgment">>

-----------------------------------------------------------------------------
(* Inputs of SpecHL *)

\* greatest number of rows of a batch handed to write_snapshot
MaxHLRows == 3
\* greatest number of write_snapshot calls in a behaviour
MaxHLWrites == 2

HLRow(pid, addr, defn) == <<pid, addr, defn, "01/15/2025", "$1">>

RowP1 == HLRow("P1", "1 Elm", "Roe")
RowP2 == HLRow("P2", "2 Oak", "Poe")
RowAD == HLRow("", "12 Main", "Doe")
RowEmpty == HLRow("", "", "")
RowBlank == <<" ", "", " ">>

HLRowPool == {RowP1, RowP2, RowAD, RowEmpty, RowBlank}

HLBatches == SeqsUpTo(HLRowPool, MaxHLRows)

HLPrevSets == { {}, {"P1"}, {"P1", "12 Main|Doe"}, {"|"} }

BannerOld == <<"Snapshot for Tuesday - 2024-12-31">>
BannerNew == <<"Snapshot for Wednesday - 2025-01-01">>

\* tables a sheet may hold when highlighting.py's client first reads it
HLTables ==
    { <<>>,
      <<BannerNew>>,
      <<BannerNew, HLHeaders, RowP1>>,
      <<BannerNew, RowP1, RowP2>>,
      <<RowAD, RowP2>>,
      \* two blocks as main.py's prepend_snapshot leaves them
      <<BannerNew, HLHeaders, RowP2, <<"">>, BannerOld, HLHeaders, RowP1, <<"">> >>,
      \* two blocks without separator rows
      <<BannerNew, HLHeaders, RowAD, BannerOld, HLHeaders, RowP1, RowP2>> }

-----------------------------------------------------------------------------
(* SpecHL *)

InitHL ==
    /\ hlSheet \in HLTables
    /\ hl_pc = "start"
    /\ hlRows \in HLBatches
    /\ hlKeys \in HLPrevSets
    /\ hlReadOk = TRUE
    /\ hlNewKeys = {}
    /\ hlRet = <<0, 0>>
    /\ hlFormat = {}
    /\ hlWrites = 0

\* keys = client.get_previous_keys(sheet)
GetPreviousKeys ==
    /\ hl_pc \in {"start", "written"}
    /\ hlWrites < MaxHLWrites
    /\ \E ok \in BOOLEAN :
        /\ hlReadOk' = ok
        /\ hlKeys' = get_previous_keys(get_values(hlSheet, ok))
    /\ hl_pc' = "keyed"
    /\ UNCHANGED <<hlSheet, hlRows, hlNewKeys, hlRet, hlFormat, hlWrites>>
    /\ UNCHANGED notHL

\* client.write_snapshot(sheet, headers, hlRows, hlKeys); fault names the
\* request that fails: clear's error is swallowed, write_values' propagates
WriteSnapshot ==
    /\ hl_pc \in {"start", "keyed"}
    /\ hlWrites < MaxHLWrites
    /\ hlWrites' = hlWrites + 1
    /\ hlNewKeys' = NewKeys(hlRows, hlKeys)
    /\ \E fault \in {"none", "clear", "write"} :
        LET values == <<<<snapshot_label>>, HLHeaders>> \o hlRows
            cleared == clear(hlSheet, fault # "clear")
        IN  IF fault = "write"
            THEN /\ hlSheet' = cleared
                 /\ hl_pc' = "failed"
                 /\ UNCHANGED <<hlRet, hlFormat>>
            ELSE /\ hlSheet' = ApiUpdate(cleared, values)
                 /\ hl_pc' = "written"
                 /\ hlFormat' = HighlightRequests(hlRows, hlNewKeys')
                 /\ hlRet' = <<Len(hlRows), Cardinality(hlNewKeys')>>
    /\ UNCHANGED <<hlRows, hlKeys, hlReadOk>>
    /\ UNCHANGED notHL

NextHL ==
    \/ GetPreviousKeys
    \/ WriteSnapshot

-----------------------------------------------------------------------------
(* Claims on highlighting.py *)

\* the identity key as the claims define it: the trimmed Property ID if it
\* is not empty, else trimmed Address, '|', trimmed Defendant
ClaimKey(r) ==
    IF Strip(CellOr(r, 0)) # "" THEN Strip(CellOr(r, 0))
    ELSE Strip(CellOr(r, 1)) \o "|" \o Strip(CellOr(r, 2))

\* a row no identity can be derived from
Unidentifiable(r) ==
    Strip(CellOr(r, 0)) = "" /\ Strip(CellOr(r, 1)) = "" /\ Strip(CellOr(r, 2)) = ""

IsBanner(row) == Len(row) > 0 /\ StartsWith(row[1], "Snapshot for")
IsHeader(row) == Len(row) > 0 /\ row[1] = "Property ID"
BannerRows(vals) == { i \in 1..Len(vals) : IsBanner(vals[i]) }

\* a table of exactly two blocks, each a banner row, a header row and data rows
TwoBlocks(vals) ==
    /\ Cardinality(BannerRows(vals)) = 2
    /\ 1 \in BannerRows(vals)
    /\ \A b \in BannerRows(vals) : b < Len(vals) /\ IsHeader(vals[b + 1])

\* the keys of the data rows of the first block of a two-block table
FirstBlockKeys(vals) ==
    LET second == CHOOSE b \in BannerRows(vals) : b # 1
    IN  { ClaimKey(vals[i]) : i \in { k \in 3..(second - 1) : Len(vals[k]) > 0 } }

\* C2: on a table of two banner-prefixed blocks, newest first,
\* get_previous_keys returns only the keys of the data rows of the first
\* block: no key, banner or header text of the second block.
C2_FirstBlockOnly ==
    (hl_pc = "keyed" /\ hlReadOk /\ TwoBlocks(get_values(hlSheet, TRUE)))
        => hlKeys = FirstBlockKeys(get_values(hlSheet, TRUE))

\* C3: in write_snapshot a row whose Property ID, Address and Defendant are
\* all empty after trimming is never counted as new, never treated as known,
\* and never shares its key with another such row.
C3_UnidentifiableIsolated ==
    hl_pc = "written" =>
        \A i \in 1..Len(hlRows) :
            Unidentifiable(hlRows[i]) =>
                /\ RowKey(hlRows[i]) \notin hlNewKeys
                /\ RowKey(hlRows[i]) \notin hlKeys
                /\ (i + 1) \notin hlFormat
                /\ \A j \in 1..Len(hlRows) :
                       (j # i /\ Unidentifiable(hlRows[j]))
                           => RowKey(hlRows[j]) # RowKey(hlRows[i])

\* C4: the new-key set write_snapshot computes is exactly
\* { key(r) : r in rows, key(r) not in prev_keys }; with prev_keys = {'P1'}
\* and rows P1, P2, ('', '12 Main', 'Doe') it is {'P2', '12 Main|Doe'}.
C4_NewKeysExact ==
    hl_pc \in {"written", "failed"} =>
        /\ hlNewKeys = { ClaimKey(hlRows[i]) : i \in 1..Len(hlRows) } \ hlKeys
        /\ (hlKeys = {"P1"} /\ hlRows = <<RowP1, RowP2, RowAD>>)
              => hlNewKeys = {"P2", "12 Main|Doe"}

\* the scenario of the claim has been written
C4_Witness ==
    /\ hl_pc = "written"
    /\ hlKeys = {"P1"}
    /\ hlRows = <<RowP1, RowP2, RowAD>>
    /\ hlNewKeys = {"P2", "12 Main|Doe"}
    /\ hlRet = <<3, 2>>

\* C12: of the records of one batch that share an identity key only the
\* first is published: the data rows write_snapshot has written hold no two
\* identifiable rows with the same key
C12_FirstOccurrenceKept ==
    hl_pc = "written" =>
        LET published == SubSeq(hlSheet, 3, Len(hlRows) + 2)
        IN  \A i, j \in 1..Len(published) :
                (i < j /\ ~Unidentifiable(published[i]))
                    => ClaimKey(published[i]) # ClaimKey(published[j])

\* no row of the table carries 'Property ID' in its first cell
NoHeader(vals) ==
    \A i \in 1..Len(vals) :
        Len(vals[i]) = 0 \/ Lower(Strip(vals[i][1])) # "property id"

\* the keys of the identifiable rows of vals from the row number from on
KeysFrom(vals, from) ==
    { ClaimKey(vals[i]) :
        i \in { k \in from..Len(vals) : Len(vals[k]) > 0 /\ ~Unidentifiable(vals[k]) } }

\* C17 as stated: without a recognizable header row get_previous_keys
\* returns the empty set
C17_NoHeaderEmptySet ==
    (hl_pc = "keyed" /\ hlReadOk /\ NoHeader(get_values(hlSheet, TRUE)))
        => hlKeys = {}

\* C17 amended: without a recognizable header row get_previous_keys falls
\* back to a skip count: it returns the empty set for a table of fewer than
\* two rows, the keys of all rows of a table of exactly two rows, and the
\* keys of the rows below the first two of a longer table
C17_HeaderFallback ==
    (hl_pc = "keyed" /\ hlReadOk /\ NoHeader(get_values(hlSheet, TRUE)))
        => LET vals == get_values(hlSheet, TRUE)
           IN  hlKeys = IF Len(vals) < 2 THEN {}
                        ELSE IF Len(vals) = 2 THEN KeysFrom(vals, 1)
                        ELSE KeysFrom(vals, 3)

\* a table of three rows without header has been read: the key of its third
\* row is taken as previous state
C17_Witness ==
    /\ hl_pc = "keyed"
    /\ hlReadOk
    /\ NoHeader(get_values(hlSheet, TRUE))
    /\ Len(get_values(hlSheet, TRUE)) = 3
    /\ hlKeys = {"P2"}

\* C18: write_snapshot returns (activeCount, newCount): the number of data
\* rows written, and the number of written rows whose key is absent from
\* prev_keys, which is also the number of rows apply_formatting highlights
C18_CountsMatch ==
    hl_pc = "written" =>
        /\ hlRet[1] = Len(hlRows)
        /\ hlRet[2] = Cardinality({ i \in 1..Len(hlRows) : ClaimKey(hlRows[i]) \notin hlKeys })
        /\ hlRet[2] = Cardinality(hlFormat)

\* the keys write_snapshot derives for the rows of a batch
KeysOfBatch(rows) == { RowKey(rows[k]) : k \in 1..Len(rows) }

\* C24: get_previous_keys, called after write_snapshot has written a batch,
\* returns exactly the keys write_snapshot derived for the rows of the
\* batch, and a second write_snapshot of the same rows with these keys
\* reports zero new rows
C24_RoundTrip ==
    /\ (hl_pc = "keyed" /\ hlWrites >= 1 /\ hlReadOk) => hlKeys = KeysOfBatch(hlRows)
    /\ (hl_pc = "written" /\ hlWrites = 2 /\ hlReadOk) => hlRet[2] = 0

\* C25: after write_snapshot, sheet row s is highlighted if and only if
\* s = idx + 2 for a data row idx of the batch whose key is in new_keys, and
\* that sheet row holds this data row; the banner row 0 and the header row 1
\* are never highlighted
C25_HighlightExactlyNew ==
    hl_pc = "written" =>
        /\ \A s \in hlFormat :
              /\ s >= 2
              /\ s - 2 < Len(hlRows)
              /\ ClaimKey(hlRows[s - 1]) \in hlNewKeys
              /\ SubSeq(hlSheet[s + 1], 1, Len(hlRows[s - 1])) = hlRows[s - 1]
        /\ \A idx \in 0..(Len(hlRows) - 1) :
              ClaimKey(hlRows[idx + 1]) \in hlNewKeys => (idx + 2) \in hlFormat
        /\ hlSheet[1][1] = snapshot_label
        /\ SubSeq(hlSheet[2], 1, Len(HLHeaders)) = HLHeaders

\* a written batch of which one row is highlighted and an earlier one is not
C25_Witness ==
    /\ hl_pc = "written"
    /\ Len(hlRows) = 3
    /\ hlFormat = {3}

-----------------------------------------------------------------------------
(* main.py: configuration and helpers of run() *)

\* two of the twelve entries of TARGET_COUNTIES: a county with the standard
\* columns and New Castle County, whose rows carry a Sale Type column
TARGET_COUNTIES ==
    << [county_id |-> "52", county_name |-> "Cape May County, NJ"],
       [county_id |-> "24", county_name |-> "New Castle County, DE"] >>

ALL_DATA_SHEET == "All Data"

\* county["county_name"][:30]
county_tab(county) ==
    IF Len(county.county_name) > 30
    THEN SubSeq(county.county_name, 1, 30)
    ELSE county.county_name

SheetNames == { county_tab(TARGET_COUNTIES[i]) : i \in 1..Len(TARGET_COUNTIES) }
              \cup {ALL_DATA_SHEET}

\* get_est_time(): the wall clock (the fixed UTC-5 offset is not modelled)
get_est_time == clock

\* SheetsClient.sheet_exists
sheet_exists(name) == sheets[name].exists

\* the banner row of prepend_snapshot and overwrite_with_snapshot
snapshot_header ==
    << <<"Snapshot for " \o StrfA(get_est_time.date) \o " - "
         \o StrfYmd(get_est_time.date)>> >>

\* columns of df_county: Property ID, Address, Defendant, Sales Date,
\* Approx Judgment, County, and Sale Type for county 24
StdColumns == <<"Property ID", "Address", "Defendant", "Sales Date",
                "Approx Judgment", "County">>

df_columns(county) ==
    IF county.county_id = "24" THEN Append(StdColumns, "Sale Type") ELSE StdColumns

\* a sequence without its element number k
DropAt(q, k) == SubSeq(q, 1, k - 1) \o SubSeq(q, k + 1, Len(q))

\* [col for col in df_county.columns if col != "County"]
county_header(county) == DropAt(df_columns(county), 6)

\* df.drop(columns=["County"]).astype(str).values.tolist()
DropCounty(rows) == [i \in 1..Len(rows) |-> DropAt(rows[i], 6)]

header_all == <<"Property ID", "Address", "Defendant", "Sales Date",
                "Approx Judgment", "County", "Sale Type">>

\* the padding of all_data_rows (has_new_castle holds for TARGET_COUNTIES)
PadRow(row) ==
    IF Len(row) = 6 THEN SubSeq(row, 1, 5) \o <<row[6]>> \o <<"">>
    ELSE IF Len(row) = 7 THEN SubSeq(row, 1, 5) \o <<row[6]>> \o <<row[7]>>
    ELSE row

PadRows(rows) == [i \in 1..Len(rows) |-> PadRow(rows[i])]

\* the first row that starts with "Snapshot for" (0-based), or -1
SnapshotStart(vals) ==
    LET bs == { i \in 1..Len(vals) :
                  Len(vals[i]) > 0 /\ StartsWith(vals[i][1], "Snapshot for") }
    IN  IF bs = {} THEN -1 ELSE Min(bs) - 1

\* header_idx of run(): the row after the banner when it is not empty, or -1
HeaderIdx(vals) ==
    LET idx == SnapshotStart(vals)
    IN  IF idx # -1 /\ idx + 1 < Len(vals) /\ Len(vals[idx + 2]) > 0
        THEN idx + 1
        ELSE -1

\* the rows of existing[header_idx + 1:] up to the first blank row,
\* as 1-based positions
RECURSIVE BlockRows(_, _)
BlockRows(vals, i) ==
    IF i > Len(vals) THEN {}
    ELSE LET r == vals[i]
         IN  IF Len(r) = 0 \/ (Len(r) = 1 /\ Strip(r[1]) = "") THEN {}
             ELSE {i} \cup BlockRows(vals, i + 1)

SnapshotRows(vals) ==
    LET h == HeaderIdx(vals)
    IN  IF h # -1 /\ h + 1 < Len(vals) THEN BlockRows(vals, h + 2) ELSE {}

\* existing_ids of run()'s per-county extraction
ExistingIds(vals) ==
    { Strip(vals[i][1]) : i \in SnapshotRows(vals) } \ {""}

\* existing_pairs of run()'s 'All Data' extraction (county_col_idx = 5)
ExistingPairs(vals) ==
    { p \in { <<Strip(CellOr(vals[i], 5)), Strip(CellOr(vals[i], 0))>> :
                i \in SnapshotRows(vals) } : p[1] # "" /\ p[2] # "" }

\* a mutant of CountyNewIndices: every record of the batch counts as new
CountyNewIndicesAll(df, ids) == 0..(Len(df) - 1)

\* new_row_indices of the per-county diff (0-based positions of df_county)
CountyNewIndices(df, ids) == { i \in 0..(Len(df) - 1) : df[i + 1][1] \notin ids }

\* new_row_indices of the 'All Data' diff
AllNewIndices(rows, pairs) ==
    { i \in 0..(Len(rows) - 1) :
        LET pid == Strip(CellOr(rows[i + 1], 0))
            cty == Strip(CellOr(rows[i + 1], 5))
        IN  pid # "" /\ cty # "" /\ <<cty, pid>> \notin pairs }

\* the rows at the positions idx (0-based), in their order
RECURSIVE Select(_, _, _)
Select(rows, idx, i) ==
    IF i > Len(rows) THEN <<>>
    ELSE (IF (i - 1) \in idx THEN <<rows[i]>> ELSE <<>>) \o Select(rows, idx, i + 1)

\* a mutant of UseOverwrite: a missing county sheet does not force overwrite
UseOverwriteFirstRunOnly(tab) == first_run

\* if first_run or not sheets.sheet_exists(county_tab)
UseOverwrite(tab) == first_run \/ ~sheet_exists(tab)

\* adjusted_indices of prepend_snapshot
AdjustedIndices(new_row_indices) == { idx + Len(snapshot_header) + 1 : idx \in new_row_indices }

\* a mutant of BlockOf: the block is written without its separator row
BlockOfNoSeparator(header_row, rows) == snapshot_header \o <<header_row>> \o rows

\* payload of prepend_snapshot, values of overwrite_with_snapshot
BlockOf(header_row, rows) == snapshot_header \o <<header_row>> \o rows \o << <<"">> >>

\* a request of the pass: rows holds the sheet rows a highlight request
\* colours or the two values of a filter's condition, n the number of data
\* rows of the block a write or highlight belongs to
Req(op, sheet, ok, rows, n) ==
    [op |-> op, sheet |-> sheet, ok |-> ok, rows |-> rows, n |-> n]

-----------------------------------------------------------------------------
(* main.py: the batches scrape_county_sales can return *)

\* passes of run() in one behaviour
MaxPasses == 3
\* Sheets API calls that fail in one behaviour
MaxFaults == 1

\* a record of results: row_data in column order
Record(pid, county) ==
    LET base == <<pid, "12 Main", "Doe", "01/15/2025", "$1", county.county_name>>
    IN  IF county.county_id = "24" THEN Append(base, "Sheriff") ELSE base

\* county_records of the county number c
CountyBatches(c) ==
    LET county == TARGET_COUNTIES[c]
    IN  IF c = 1
        THEN { <<>>,
               <<Record("P1", county)>>,
               <<Record("P1", county), Record("P2", county)>>,
               <<Record("", county), Record("P1", county)>> }
        ELSE { <<>>, <<Record("P1", county)>> }

NoBatches == [c \in 1..Len(TARGET_COUNTIES) |-> <<>>]

-----------------------------------------------------------------------------
(* main.py: run() over a spreadsheet, one action per Sheets API exchange *)

\* the Sheets API call may fail while the fault budget lasts
Oks == IF faults < MaxFaults THEN {TRUE, FALSE} ELSE {TRUE}

Spend(ok) == faults' = IF ok THEN faults ELSE faults + 1

\* the start of run(): first_run is read before the county loop
StartRun ==
    /\ prog = "main"
    /\ pc = "idle"
    /\ passNo < MaxPasses
    /\ clock' = IF passNo = 0 THEN clock
                ELSE [clock EXCEPT !.date = NextDay(clock.date)]
    /\ first_run' = ~sheet_exists(ALL_DATA_SHEET)
    /\ all_data_rows' = <<>>
    /\ ci' = 1
    /\ pc' = "scrape"
    /\ log' = <<>>
    /\ diffed' = "none"
    /\ UNCHANGED <<sheets, passNo, df_county, existing, existing_ids,
                   existing_pairs, wCtx, wMode, wRows, wIdx, existing2,
                   wValues, faults, readOk, prevBatch, prevDone, decided,
                   prog>>
    /\ UNCHANGED <<ticks, wIn, wOut, s_pc, sTable, sIdx, sOut, sRefs>>
    /\ UNCHANGED <<hlVars, fetchVars, raceVars>>

\* what follows the body of the county loop: the next county, or the
\* 'All Data' stage
LoopNext ==
    IF ci < Len(TARGET_COUNTIES)
    THEN ci' = ci + 1 /\ pc' = "scrape"
    ELSE ci' = ci /\ pc' = "all_start"

\* the end of run()
EndRun == pc' = "idle" /\ passNo' = passNo + 1

\* the county's try body ran to its end: all_data_rows.extend(...)
CountyDone ==
    /\ all_data_rows' = all_data_rows \o df_county
    /\ prevDone' = [prevDone EXCEPT ![ci] = TRUE]
    /\ LoopNext

\* a mutant of CountyFailed: the exception ends the county loop
CountyFailedEndsLoop ==
    /\ all_data_rows' = all_data_rows
    /\ prevDone' = [prevDone EXCEPT ![ci] = FALSE]
    /\ ci' = ci
    /\ pc' = "all_start"

\* except Exception: continue
CountyFailed ==
    /\ all_data_rows' = all_data_rows
    /\ prevDone' = [prevDone EXCEPT ![ci] = FALSE]
    /\ LoopNext

\* county_records = await scraper.scrape_county_sales(page, county), the
\* choice of the write mode, and create_sheet_if_missing on the overwrite path
\* (its addSheet request is taken to succeed)
ScrapeCounty ==
    /\ pc = "scrape"
    /\ \E batch \in CountyBatches(ci) :
         LET county == TARGET_COUNTIES[ci]
             tab == county_tab(county)
         IN  /\ df_county' = batch
             /\ prevBatch' = [prevBatch EXCEPT ![ci] = batch]
             /\ diffed' = "none"
             /\ IF batch = <<>>
                THEN /\ prevDone' = [prevDone EXCEPT ![ci] = TRUE]
                     /\ LoopNext
                     /\ UNCHANGED <<sheets, wCtx, wMode, wRows, wIdx, wValues,
                                    log, decided>>
                ELSE /\ decided' = [batch |-> batch, first_run |-> first_run,
                                    existed |-> sheet_exists(tab),
                                    empty |-> ApiValues(sheets[tab].grid) = <<>>,
                                    same |-> prevDone[ci] /\ prevBatch[ci] = batch]
                     /\ UNCHANGED <<prevDone, ci>>
                     /\ IF UseOverwrite(tab)
                        THEN /\ sheets' = [sheets EXCEPT ![tab].exists = TRUE]
                             /\ wCtx' = "county"
                             /\ wMode' = "overwrite"
                             /\ wRows' = DropCounty(batch)
                             /\ wIdx' = {}
                             /\ wValues' = BlockOf(county_header(county), DropCounty(batch))
                             /\ log' = IF sheet_exists(tab) THEN log
                                       ELSE Append(log, Req("create", tab, TRUE, {}, 0))
                             /\ pc' = "ow_clear"
                        ELSE /\ pc' = "county_read"
                             /\ UNCHANGED <<sheets, wCtx, wMode, wRows, wIdx,
                                            wValues, log>>
    /\ UNCHANGED <<passNo, first_run, all_data_rows, existing, existing_ids,
                   existing_pairs, existing2, faults, readOk>>
    /\ UNCHANGED prog
    /\ UNCHANGED winVars
    /\ UNCHANGED <<hlVars, fetchVars, raceVars>>

\* existing = sheets.get_values(county_tab, "A:Z"), the extraction of
\* existing_ids and the diff; prepend_snapshot is entered when new_df is
\* not empty
CountyRead ==
    /\ pc = "county_read"
    /\ \E ok \in Oks :
         LET county == TARGET_COUNTIES[ci]
             tab == county_tab(county)
             vals == get_values(sheets[tab].grid, ok)
             ids == ExistingIds(vals)
             idx == CountyNewIndices(df_county, ids)
             new_rows == DropCounty(Select(df_county, idx, 1))
         IN  /\ Spend(ok)
             /\ readOk' = ok
             /\ existing' = vals
             /\ existing_ids' = ids
             /\ wIdx' = idx
             /\ diffed' = "county"
             /\ log' = Append(log, Req("get", tab, ok, {}, 0))
             /\ IF new_rows = <<>>
                THEN /\ CountyDone
                     /\ UNCHANGED <<wCtx, wMode, wRows, wValues>>
                ELSE /\ wCtx' = "county"
                     /\ wMode' = "prepend"
                     /\ wRows' = new_rows
                     /\ wValues' = BlockOf(county_header(county), new_rows)
                     /\ pc' = "pp_read"
                     /\ UNCHANGED <<all_data_rows, prevDone, ci>>
    /\ UNCHANGED <<sheets, passNo, first_run, df_county, existing_pairs,
                   existing2, prevBatch, decided>>
    /\ UNCHANGED prog
    /\ UNCHANGED winVars
    /\ UNCHANGED <<hlVars, fetchVars, raceVars>>

\* a mutant of wSheet: a county's snapshot goes to the first county's sheet
wSheetFirstCounty ==
    IF wCtx = "all" THEN ALL_DATA_SHEET ELSE county_tab(TARGET_COUNTIES[1])

\* the sheet a snapshot is being written to
wSheet == IF wCtx = "all" THEN ALL_DATA_SHEET ELSE county_tab(TARGET_COUNTIES[ci])

\* prepend_snapshot: existing = self.get_values(sheet_name, "A:Z");
\* values = payload + existing
PrependRead ==
    /\ pc = "pp_read"
    /\ \E ok \in Oks :
         LET vals == get_values(sheets[wSheet].grid, ok)
         IN  /\ Spend(ok)
             /\ existing2' = vals
             /\ wValues' = wValues \o vals
             /\ log' = Append(log, Req("get", wSheet, ok, {}, 0))
    /\ pc' = "pp_clear"
    /\ UNCHANGED <<sheets, passNo, first_run, ci, all_data_rows, df_county,
                   existing, existing_ids, existing_pairs, wCtx, wMode, wRows,
                   wIdx, readOk, prevBatch, prevDone, diffed, decided>>
    /\ UNCHANGED prog
    /\ UNCHANGED winVars
    /\ UNCHANGED <<hlVars, fetchVars, raceVars>>

\* self.clear(sheet_name, "A:Z") of prepend_snapshot and
\* overwrite_with_snapshot: a failure is printed and swallowed
ClearSheet ==
    /\ pc \in {"pp_clear", "ow_clear"}
    /\ \E ok \in Oks :
         /\ Spend(ok)
         /\ sheets' = [sheets EXCEPT ![wSheet].grid = clear(@, ok)]
         /\ log' = Append(log, Req("clear", wSheet, ok, {}, 0))
    /\ pc' = IF pc = "pp_clear" THEN "pp_write" ELSE "ow_write"
    /\ UNCHANGED <<passNo, first_run, ci, all_data_rows, df_county, existing,
                   existing_ids, existing_pairs, wCtx, wMode, wRows, wIdx,
                   existing2, wValues, readOk, prevBatch, prevDone, diffed,
                   decided>>
    /\ UNCHANGED prog
    /\ UNCHANGED winVars
    /\ UNCHANGED <<hlVars, fetchVars, raceVars>>

\* apply_30_day_filter: the two values of the DATE_BETWEEN condition it sets
\* on the Sales Date column, today and end_date as '%m/%d/%Y'
FilterValues ==
    <<StrfMdY(get_est_time.date), StrfMdY(AddDays(get_est_time.date, 29))>>

\* the requests that follow a successful write_values: highlight_new_rows
\* in prepend mode, then apply_30_day_filter
AfterWrite ==
    (IF wMode = "prepend" /\ wIdx # {}
     THEN <<Req("highlight", wSheet, TRUE, AdjustedIndices(wIdx), Len(wRows))>>
     ELSE <<>>)
    \o <<Req("filter", wSheet, TRUE, FilterValues, 0)>>

\* how a write_values call can end: "ok", or an HttpError raised by its
\* values().update ("update", nothing written) or by the batchUpdate that
\* formats the sheet after the values were written ("format")
WriteOutcomes == IF faults < MaxFaults THEN {"ok", "update", "format"} ELSE {"ok"}

\* self.write_values(sheet_name, values, "A1") and the rest of
\* prepend_snapshot / overwrite_with_snapshot; a failure is raised to run(),
\* whose county loop continues and whose 'All Data' stage prints it
WriteSheet ==
    /\ pc \in {"pp_write", "ow_write"}
    /\ \E out \in WriteOutcomes :
         /\ Spend(out = "ok")
         /\ sheets' = IF out = "update" THEN sheets
                       ELSE [sheets EXCEPT ![wSheet].grid = ApiUpdate(@, wValues)]
         /\ IF out = "ok"
            THEN /\ log' = Append(log, Req("write", wSheet, TRUE, {}, Len(wRows)))
                            \o AfterWrite
                 /\ IF wCtx = "county"
                    THEN CountyDone /\ UNCHANGED passNo
                    ELSE EndRun /\ UNCHANGED <<all_data_rows, prevDone, ci>>
            ELSE /\ log' = Append(log, Req("write", wSheet, FALSE, {}, Len(wRows)))
                 /\ IF wCtx = "county"
                    THEN CountyFailed /\ UNCHANGED passNo
                    ELSE EndRun /\ UNCHANGED <<all_data_rows, prevDone, ci>>
    /\ UNCHANGED <<first_run, df_county, existing, existing_ids, existing_pairs,
                   wCtx, wMode, wRows, wIdx, existing2, wValues, readOk,
                   prevBatch, diffed, decided>>
    /\ UNCHANGED prog
    /\ UNCHANGED winVars
    /\ UNCHANGED <<hlVars, fetchVars, raceVars>>

\* the 'All Data' stage up to its first exchange: the padding,
\* create_sheet_if_missing and the choice of the write mode
AllDataStart ==
    /\ pc = "all_start"
    /\ IF all_data_rows = <<>>
       THEN /\ EndRun
            /\ UNCHANGED <<sheets, all_data_rows, wCtx, wMode, wRows, wIdx,
                           wValues, log>>
       ELSE /\ all_data_rows' = PadRows(all_data_rows)
            /\ sheets' = [sheets EXCEPT ![ALL_DATA_SHEET].exists = TRUE]
            /\ log' = IF sheet_exists(ALL_DATA_SHEET) THEN log
                      ELSE Append(log, Req("create", ALL_DATA_SHEET, TRUE, {}, 0))
            /\ UNCHANGED passNo
            /\ IF first_run
               THEN /\ wCtx' = "all"
                    /\ wMode' = "overwrite"
                    /\ wRows' = PadRows(all_data_rows)
                    /\ wIdx' = {}
                    /\ wValues' = BlockOf(header_all, PadRows(all_data_rows))
                    /\ pc' = "ow_clear"
               ELSE /\ pc' = "all_read"
                    /\ UNCHANGED <<wCtx, wMode, wRows, wIdx, wValues>>
    /\ UNCHANGED <<first_run, ci, df_county, existing, existing_ids,
                   existing_pairs, existing2, faults, readOk, prevBatch,
                   prevDone, diffed, decided>>
    /\ UNCHANGED prog
    /\ UNCHANGED winVars
    /\ UNCHANGED <<hlVars, fetchVars, raceVars>>

\* existing = sheets.get_values(ALL_DATA_SHEET, "A:Z"), the extraction of
\* existing_pairs and the diff
AllDataRead ==
    /\ pc = "all_read"
    /\ \E ok \in Oks :
         LET vals == get_values(sheets[ALL_DATA_SHEET].grid, ok)
             pairs == ExistingPairs(vals)
             idx == AllNewIndices(all_data_rows, pairs)
             new_rows == Select(all_data_rows, idx, 1)
         IN  /\ Spend(ok)
             /\ readOk' = ok
             /\ existing' = vals
             /\ existing_pairs' = pairs
             /\ wIdx' = idx
             /\ diffed' = "all"
             /\ log' = Append(log, Req("get", ALL_DATA_SHEET, ok, {}, 0))
             /\ IF new_rows = <<>>
                THEN /\ EndRun
                     /\ UNCHANGED <<wCtx, wMode, wRows, wValues>>
                ELSE /\ wCtx' = "all"
                     /\ wMode' = "prepend"
                     /\ wRows' = new_rows
                     /\ wValues' = BlockOf(header_all, new_rows)
                     /\ pc' = "pp_read"
                     /\ UNCHANGED passNo
    /\ UNCHANGED <<sheets, first_run, ci, all_data_rows, df_county,
                   existing_ids, existing2, prevBatch, prevDone, decided>>
    /\ UNCHANGED prog
    /\ UNCHANGED winVars
    /\ UNCHANGED <<hlVars, fetchVars, raceVars>>

\* a spreadsheet that holds none of the sheets yet; run() has not started
RunIdle ==
    /\ sheets = [n \in SheetNames |-> [exists |-> FALSE, grid |-> <<>>]]
    /\ pc = "idle"
    /\ passNo = 0
    /\ first_run = FALSE
    /\ ci = 1
    /\ all_data_rows = <<>>
    /\ df_county = <<>>
    /\ existing = <<>>
    /\ existing_ids = {}
    /\ existing_pairs = {}
    /\ wCtx = "county"
    /\ wMode = "none"
    /\ wRows = <<>>
    /\ wIdx = {}
    /\ existing2 = <<>>
    /\ wValues = <<>>
    /\ log = <<>>
    /\ faults = 0
    /\ readOk = TRUE
    /\ prevBatch = NoBatches
    /\ prevDone = [c \in 1..Len(TARGET_COUNTIES) |-> FALSE]
    /\ diffed = "none"
    /\ decided = [batch |-> <<>>, first_run |-> FALSE, existed |-> FALSE,
                  empty |-> TRUE, same |-> FALSE]

InitMain == RunIdle /\ prog \in {"main", "light"}

MainIdle == RunIdle /\ prog = "main"

-----------------------------------------------------------------------------
(* main_lightweight.py: run() over the same kind of spreadsheet *)

\* a row of scrape_county_sales: list(r.values()) of its seven keys
LightRecord(pid, county) ==
    <<pid, "12 Main", "Doe", "01/15/2025", "", county.county_name,
      IF county.county_id # "24" THEN "" ELSE "Unknown">>

LightBatches(c) ==
    LET county == TARGET_COUNTIES[c]
    IN  IF c = 1
        THEN { <<>>,
               <<LightRecord("P1", county)>>,
               <<LightRecord("P1", county), LightRecord("P2", county)>> }
        ELSE { <<>>, <<LightRecord("P1", county)>> }

\* list(county_rows[0].keys()) and list(all_data_rows[0].keys())
light_header_row == <<"Property ID", "Address", "Defendant", "Sales Date",
                      "Approx Judgment", "County", "Sale Type">>

\* [r for r in all_data_rows if r["County"] == county['county_name']]
CountyRowsOf(rows, name) ==
    LET OfCounty(r) == r[6] = name IN SelectSeq(rows, OfCounty)

\* {r[0] for r in existing_values[1:] if r}
LightExistingIds(vals) ==
    { vals[i][1] : i \in { k \in 2..Len(vals) : Len(vals[k]) > 0 } }

\* the rows whose "Property ID" is not in existing_ids
LightNewRows(rows, ids) ==
    LET IsNew(r) == r[1] \notin ids IN SelectSeq(rows, IsNew)

\* {(r[5], r[0]) for r in existing_all[1:]} raises IndexError on a row of
\* fewer than six cells
LightPairsRaise(vals) == \E i \in 2..Len(vals) : Len(vals[i]) < 6

LightExistingPairs(vals) == { <<vals[i][6], vals[i][1]>> : i \in 2..Len(vals) }

LightAllNewRows(rows, pairs) ==
    LET IsNew(r) == <<r[6], r[1]>> \notin pairs IN SelectSeq(rows, IsNew)

\* the sheet main_lightweight.py's snapshot writer works on
lwSheet == IF wCtx = "all" THEN ALL_DATA_SHEET
           ELSE TARGET_COUNTIES[ci].county_name

\* create_sheet_if_missing as a request of the pass
CreateReq(name) ==
    IF sheet_exists(name) THEN <<>> ELSE <<Req("create", name, TRUE, {}, 0)>>

\* the scraping loop of run(): every county is scraped before any sheet
\* is touched
LightStart ==
    /\ prog = "light"
    /\ pc = "idle"
    /\ passNo < MaxPasses
    /\ \E b1 \in LightBatches(1), b2 \in LightBatches(2) :
         all_data_rows' = b1 \o b2
    /\ clock' = IF passNo = 0 THEN clock
                ELSE [clock EXCEPT !.date = NextDay(clock.date)]
    /\ ci' = 1
    /\ pc' = "lw_county"
    /\ log' = <<>>
    /\ UNCHANGED <<sheets, passNo, first_run, df_county, existing, existing_ids,
                   existing_pairs, wCtx, wMode, wRows, wIdx, existing2,
                   wValues, faults, readOk, prevBatch, prevDone, diffed,
                   decided, prog>>
    /\ UNCHANGED <<ticks, wIn, wOut, s_pc, sTable, sIdx, sOut, sRefs>>
    /\ UNCHANGED <<hlVars, fetchVars, raceVars>>

\* what follows the body of the per-county loop
LightNext ==
    IF ci < Len(TARGET_COUNTIES)
    THEN ci' = ci + 1 /\ pc' = "lw_county"
    ELSE ci' = ci /\ pc' = "lw_all"

\* the body of the per-county loop up to the call of the snapshot writer
LightCounty ==
    /\ pc = "lw_county"
    /\ LET name == TARGET_COUNTIES[ci].county_name
           rows == CountyRowsOf(all_data_rows, name)
       IN  /\ df_county' = rows
           /\ IF rows = <<>>
              THEN /\ sheets' = [sheets EXCEPT ![name].exists = TRUE]
                   /\ log' = log \o CreateReq(name)
                   /\ LightNext
                   /\ UNCHANGED <<existing, existing_ids, wCtx, wMode, wRows,
                                  wIdx, wValues, faults>>
              ELSE \E ok \in Oks :
                     LET vals == get_values(sheets[name].grid, ok)
                         ids == LightExistingIds(vals)
                         new_rows == LightNewRows(rows, ids)
                     IN  /\ Spend(ok)
                         /\ sheets' = [sheets EXCEPT ![name].exists = TRUE]
                         /\ log' = (log \o CreateReq(name))
                                   \o <<Req("get", name, ok, {}, 0)>>
                         /\ existing' = vals
                         /\ existing_ids' = ids
                         /\ wCtx' = "county"
                         /\ wRows' = new_rows
                         /\ wValues' = BlockOf(light_header_row, new_rows)
                         /\ IF vals = <<>>
                            THEN wMode' = "overwrite" /\ wIdx' = {}
                                 /\ pc' = "lw_ow_clear" /\ ci' = ci
                            ELSE IF new_rows = <<>>
                            THEN wMode' = "none" /\ wIdx' = {} /\ LightNext
                            ELSE wMode' = "prepend"
                                 /\ wIdx' = 0..(Len(new_rows) - 1)
                                 /\ pc' = "lw_pp_read" /\ ci' = ci
    /\ UNCHANGED <<passNo, first_run, all_data_rows, existing_pairs, existing2,
                   readOk, prevBatch, prevDone, diffed, decided, prog>>
    /\ UNCHANGED winVars
    /\ UNCHANGED <<hlVars, fetchVars, raceVars>>

\* prepend_snapshot: existing = self.get_values(sheet_name, "A:Z")
LightPrependRead ==
    /\ pc = "lw_pp_read"
    /\ \E ok \in Oks :
         LET vals == get_values(sheets[lwSheet].grid, ok)
         IN  /\ Spend(ok)
             /\ existing2' = vals
             /\ wValues' = wValues \o vals
             /\ log' = Append(log, Req("get", lwSheet, ok, {}, 0))
    /\ pc' = "lw_pp_clear"
    /\ UNCHANGED <<sheets, passNo, first_run, ci, all_data_rows, df_county,
                   existing, existing_ids, existing_pairs, wCtx, wMode, wRows,
                   wIdx, readOk, prevBatch, prevDone, diffed, decided, prog>>
    /\ UNCHANGED winVars
    /\ UNCHANGED <<hlVars, fetchVars, raceVars>>

\* self.clear(sheet_name, "A:Z") of both snapshot writers
LightClear ==
    /\ pc \in {"lw_pp_clear", "lw_ow_clear"}
    /\ \E ok \in Oks :
         /\ Spend(ok)
         /\ sheets' = [sheets EXCEPT ![lwSheet].grid = clear(@, ok)]
         /\ log' = Append(log, Req("clear", lwSheet, ok, {}, 0))
    /\ pc' = IF pc = "lw_pp_clear" THEN "lw_pp_write" ELSE "lw_ow_write"
    /\ UNCHANGED <<passNo, first_run, ci, all_data_rows, df_county, existing,
                   existing_ids, existing_pairs, wCtx, wMode, wRows, wIdx,
                   existing2, wValues, readOk, prevBatch, prevDone, diffed,
                   decided, prog>>
    /\ UNCHANGED winVars
    /\ UNCHANGED <<hlVars, fetchVars, raceVars>>

\* apply_rolling_30_day_filter: start_date and end_date as '%m/%d/%Y'
LightFilterValues ==
    <<StrfMdY(get_est_time.date), StrfMdY(AddDays(get_est_time.date, 30))>>

\* how the write and what follows it can end in main_lightweight.py: "ok",
\* an error raised by values().update ("update", nothing written) or by a
\* later batchUpdate of the snapshot writer ("after")
LightOutcomes == IF faults < MaxFaults THEN {"ok", "update", "after"} ELSE {"ok"}

\* self.write_values(...) and the rest of the snapshot writer; nothing in
\* run() catches a failure, which ends the process
LightWrite ==
    /\ pc \in {"lw_pp_write", "lw_ow_write"}
    /\ \E out \in LightOutcomes :
         /\ Spend(out = "ok")
         /\ sheets' = IF out = "update" THEN sheets
                       ELSE [sheets EXCEPT ![lwSheet].grid = ApiUpdate(@, wValues)]
         /\ IF out = "ok"
            THEN /\ log' = (Append(log, Req("write", lwSheet, TRUE, {}, Len(wRows)))
                            \o (IF wMode = "prepend" /\ wIdx # {}
                                THEN <<Req("highlight", lwSheet, TRUE,
                                           { idx + 2 : idx \in wIdx }, Len(wRows))>>
                                ELSE <<>>))
                           \o <<Req("filter", lwSheet, TRUE, LightFilterValues, 0)>>
                 /\ IF wCtx = "county"
                    THEN LightNext /\ UNCHANGED passNo
                    ELSE EndRun /\ UNCHANGED ci
            ELSE /\ log' = Append(log, Req("write", lwSheet, out = "after", {},
                                           Len(wRows)))
                 /\ EndRun /\ UNCHANGED ci
    /\ UNCHANGED <<first_run, all_data_rows, df_county, existing, existing_ids,
                   existing_pairs, wCtx, wMode, wRows, wIdx, existing2, wValues,
                   readOk, prevBatch, prevDone, diffed, decided, prog>>
    /\ UNCHANGED winVars
    /\ UNCHANGED <<hlVars, fetchVars, raceVars>>

\* the "All Data" stage up to the call of the snapshot writer
LightAllData ==
    /\ pc = "lw_all"
    /\ sheets' = [sheets EXCEPT ![ALL_DATA_SHEET].exists = TRUE]
    /\ IF all_data_rows = <<>>
       THEN /\ log' = log \o CreateReq(ALL_DATA_SHEET)
            /\ EndRun
            /\ UNCHANGED <<existing, existing_pairs, wCtx, wMode, wRows, wIdx,
                           wValues, faults>>
       ELSE \E ok \in Oks :
              LET vals == get_values(sheets[ALL_DATA_SHEET].grid, ok)
              IN  /\ Spend(ok)
                  /\ log' = (log \o CreateReq(ALL_DATA_SHEET))
                            \o <<Req("get", ALL_DATA_SHEET, ok, {}, 0)>>
                  /\ existing' = vals
                  /\ IF LightPairsRaise(vals)
                     THEN /\ EndRun
                          /\ UNCHANGED <<existing_pairs, wCtx, wMode, wRows,
                                         wIdx, wValues>>
                     ELSE LET pairs == LightExistingPairs(vals)
                              new_rows == LightAllNewRows(all_data_rows, pairs)
                          IN  /\ existing_pairs' = pairs
                              /\ wCtx' = "all"
                              /\ wRows' = new_rows
                              /\ wValues' = BlockOf(light_header_row, new_rows)
                              /\ IF vals = <<>>
                                 THEN wMode' = "overwrite" /\ wIdx' = {}
                                      /\ pc' = "lw_ow_clear" /\ UNCHANGED passNo
                                 ELSE IF new_rows = <<>>
                                 THEN wMode' = "none" /\ wIdx' = {} /\ EndRun
                                 ELSE wMode' = "prepend"
                                      /\ wIdx' = 0..(Len(new_rows) - 1)
                                      /\ pc' = "lw_pp_read" /\ UNCHANGED passNo
    /\ UNCHANGED <<first_run, ci, all_data_rows, df_county, existing_ids,
                   existing2, readOk, prevBatch, prevDone, diffed, decided, prog>>
    /\ UNCHANGED winVars
    /\ UNCHANGED <<hlVars, fetchVars, raceVars>>

Next ==
    \/ StartRun
    \/ ScrapeCounty
    \/ CountyRead
    \/ PrependRead
    \/ ClearSheet
    \/ WriteSheet
    \/ AllDataStart
    \/ AllDataRead
    \/ LightStart
    \/ LightCounty
    \/ LightPrependRead
    \/ LightClear
    \/ LightWrite
    \/ LightAllData

-----------------------------------------------------------------------------
(* main.py: properties of run() *)

CountyTabs == { county_tab(TARGET_COUNTIES[c]) : c \in 1..Len(TARGET_COUNTIES) }

\* the positions in the pass's request log of the requests op on sheet t
Requests(op, t) == { j \in 1..Len(log) : log[j].op = op /\ log[j].sheet = t }

\* the snapshot writer is at work for the county of the loop
WritingCounty ==
    /\ pc \in {"pp_read", "pp_clear", "pp_write", "ow_clear", "ow_write"}
    /\ wCtx = "county"

\* the Property ID of a batch record
PidOf(rec) == rec[1]

InOrder(q) == \A i, j \in 1..Len(q) : i < j => q[i] < q[j]

\* the batch positions (from 1) of the records whose Property ID is not
\* in ids, in batch order
NewPositions(batch, ids) ==
    CHOOSE q \in SeqsUpTo(1..Len(batch), Len(batch)) :
        /\ InOrder(q)
        /\ { q[k] : k \in 1..Len(q) } = { i \in 1..Len(batch) : PidOf(batch[i]) \notin ids }

\* a record as a sheet row: every column but County (the sixth)
SheetRow(rec) == [k \in 1..(Len(rec) - 1) |-> IF k < 6 THEN rec[k] ELSE rec[k + 1]]

\* C1: when a county's loop body ended normally in the previous pass and the
\* county's batch is the same as in that pass, the per-county diff of this pass
\* (read without failure, every record carrying a Property ID) finds no new
\* record, so nothing is written
C1_IdenticalBatchNoNewRows ==
    ( /\ diffed = "county"
      /\ decided.same
      /\ readOk
      /\ faults = 0
      /\ \A i \in 1..Len(df_county) : Strip(PidOf(df_county[i])) # "" )
    => /\ wIdx = {}
       /\ ~WritingCounty

\* C5: in both diffs a record of the batch is classified new exactly when it
\* is identifiable and its key is absent from the extracted previous state
C5_DiffPartition ==
    /\ diffed = "county" =>
         \A i \in 1..Len(df_county) :
            ((i - 1) \in wIdx) <=>
               (PidOf(df_county[i]) # "" /\ PidOf(df_county[i]) \notin existing_ids)
    /\ diffed = "all" =>
         \A i \in 1..Len(all_data_rows) :
            ((i - 1) \in wIdx) <=>
               LET pid == Strip(all_data_rows[i][1])
                   cty == Strip(all_data_rows[i][6])
               IN  pid # "" /\ cty # "" /\ <<cty, pid>> \notin existing_pairs

\* C8: in a pass a county's sheet is read at most once, the read precedes
\* every clear and write of that sheet, and what prepend_snapshot writes back
\* below the new block is what that read returned
C8_SingleReadBeforeWrite ==
    /\ \A t \in CountyTabs :
         /\ Cardinality(Requests("get", t)) <= 1
         /\ \A j \in Requests("get", t) :
              \A k \in Requests("clear", t) \cup Requests("write", t) : j < k
    /\ (WritingCounty /\ pc \in {"pp_clear", "pp_write"}) => existing2 = existing

\* C9: every highlight request of prepend mode names exactly the data rows of
\* the new block: the sheet rows 2 .. n+1 (0-based) for a block of n new rows
C9_HighlightsNewBlock ==
    \A j \in 1..Len(log) :
        log[j].op = "highlight" => log[j].rows = 2..(log[j].n + 1)

LightWritingCounty ==
    /\ pc \in {"lw_pp_read", "lw_pp_clear", "lw_pp_write", "lw_ow_clear",
               "lw_ow_write"}
    /\ wCtx = "county"

BatchRows ==
    IF wCtx = "all" THEN all_data_rows
    ELSE [i \in 1..Len(df_county) |-> SheetRow(df_county[i])]

\* rows is a subsequence of batch: the same records in the same relative order
KeepsOrder(rows, batch) ==
    \E q \in SeqsUpTo(1..Len(batch), Len(batch)) :
        /\ InOrder(q)
        /\ Len(q) = Len(rows)
        /\ \A k \in 1..Len(q) : rows[k] = batch[q[k]]

\* C11: the values handed to write_values by overwrite_with_snapshot and by
\* prepend_snapshot begin with one block: a banner row that starts with
\* 'Snapshot for', the header row, the data rows in the relative order of the
\* scraped batch, and one blank separator row; overwrite writes nothing else
C11_BlockLayout ==
    pc \in {"pp_write", "ow_write"} =>
        LET n == Len(wRows)
        IN  /\ Len(wValues) >= n + 3
            /\ Len(wValues[1]) = 1
            /\ StartsWith(wValues[1][1], "Snapshot for")
            /\ wValues[2][1] = "Property ID"
            /\ \A c \in 1..Len(wValues[2]) : wCtx = "county" => wValues[2][c] # "County"
            /\ n > 0
            /\ SubSeq(wValues, 3, n + 2) = wRows
            /\ KeepsOrder(wRows, BatchRows)
            /\ wValues[n + 3] = <<"">>
            /\ wMode = "overwrite" => Len(wValues) = n + 3
            /\ wMode = "prepend" => SubSeq(wValues, n + 4, Len(wValues)) = existing2

\* the 'All Data' sheet gets a new block of two of the pass's three records
C11_Witness ==
    /\ pc = "pp_write"
    /\ wCtx = "all"
    /\ wMode = "prepend"
    /\ Len(wRows) = 2
    /\ Len(all_data_rows) = 3
    /\ existing2 # <<>>

\* the pass's request log holds a failed write of the sheet t
WriteFailedOn(t) == \E j \in Requests("write", t) : ~log[j].ok

\* C13: when the publishing of a county raises in main.run, the county is
\* skipped: its records do not reach all_data_rows, the pass does not end, and
\* the loop goes on to the next county of TARGET_COUNTIES or, after the last
\* one, to the 'All Data' stage
C13_FailedCountySkipped ==
    [][ ( /\ prog = "main"
          /\ pc \in {"pp_write", "ow_write"}
          /\ wCtx = "county"
          /\ faults' > faults )
        => /\ passNo' = passNo
           /\ all_data_rows' = all_data_rows
           /\ IF ci < Len(TARGET_COUNTIES)
              THEN ci' = ci + 1 /\ pc' = "scrape"
              ELSE pc' = "all_start"
      ]_<<winVars, hlVars, mainVars>>

\* the first county's write failed and the pass has reached the second
\* county's write
C13_Witness ==
    /\ prog = "main"
    /\ WriteFailedOn(county_tab(TARGET_COUNTIES[1]))
    /\ ci = 2
    /\ pc \in {"pp_write", "ow_write"}
    /\ wCtx = "county"

\* C14: in main.run a failed read of a county's sheet is not taken as an
\* empty previous state: the diff that follows it marks no record new, and
\* no clear or write of that sheet follows the failed read in the pass
C14_ReadFailureSurfaces ==
    prog = "main" =>
        /\ (diffed = "county" /\ ~readOk) => wIdx = {}
        /\ \A t \in CountyTabs :
             \A j \in Requests("get", t) :
                ~log[j].ok =>
                    \A k \in Requests("clear", t) \cup Requests("write", t) : k < j

\* the county number c has had its turn in the county loop of the pass
Attempted(c) == c < ci \/ (c = ci /\ pc # "scrape")

\* C15: a county whose scrape returns no data in main.run never reaches the
\* write stage: the step that finds the batch empty leaves every sheet as it
\* is, and the request log of the pass holds no create, clear or write of
\* that county's sheet
C15_NoDataNoWrite ==
    /\ [](prog = "main" =>
            \A c \in 1..Len(TARGET_COUNTIES) :
               (Attempted(c) /\ prevBatch[c] = <<>>) =>
                  LET t == county_tab(TARGET_COUNTIES[c])
                  IN  /\ Requests("create", t) = {}
                      /\ Requests("clear", t) = {}
                      /\ Requests("write", t) = {})
    /\ [][ (prog = "main" /\ pc = "scrape" /\ df_county' = <<>>)
           => (sheets' = sheets /\ log' = log /\ pc' \in {"scrape", "all_start"})
         ]_<<winVars, hlVars, mainVars>>

\* a pass in which the first county, whose sheet holds an earlier snapshot,
\* returned no data and the second county was written
C15_Witness ==
    /\ prog = "main"
    /\ pc = "idle"
    /\ passNo > 1
    /\ prevBatch[1] = <<>>
    /\ sheets[county_tab(TARGET_COUNTIES[1])].grid # <<>>
    /\ Requests("write", county_tab(TARGET_COUNTIES[2])) # {}

\* main_lightweight.py's run() has just ended at its read of 'All Data'
LightEndedAtAllRead ==
    /\ prog = "light"
    /\ pc = "idle"
    /\ Len(log) > 0
    /\ log[Len(log)].op = "get"
    /\ log[Len(log)].sheet = ALL_DATA_SHEET

\* C16: no previous-state extraction raises; for main_lightweight.py's
\* 'All Data' extraction, which indexes r[5] and r[0] of every row below the
\* first, this requires each such row of the table read to have six cells
C16_ExtractionNeverRaises ==
    LightEndedAtAllRead => \A i \in 2..Len(existing) : Len(existing[i]) >= 6

\* C19: every date filter set after a write spans the 30 calendar days
\* [today, today + 29], the window of is_within_30_days: its first value
\* reads as today's date and its second value as the date 29 days later
C19_FilterWindow ==
    \A j \in 1..Len(log) :
        log[j].op = "filter" =>
            LET a == parse_date(log[j].rows[1])
                b == parse_date(log[j].rows[2])
            IN  /\ a.ok /\ b.ok
                /\ a.date = clock.date
                /\ ToOrdinal(b.date) - ToOrdinal(a.date) = WINDOW_DAYS - 1

\* the non-empty first-column values of the data rows of the most recent
\* block of vals: the rows after the header that follows the first banner,
\* up to the banner of the next block
TopBlockIds(vals) ==
    LET bs == BannerRows(vals)
    IN  IF bs = {} THEN {}
        ELSE LET b == Min(bs)
                 later == { k \in bs : k > b }
                 stop == IF later = {} THEN Len(vals) + 1 ELSE Min(later)
                 data == { k \in (b + 2)..(stop - 1) : Len(vals[k]) > 0 }
             IN  { Strip(vals[k][1]) : k \in data } \ {""}

\* C23: existing_ids of main.run's per-county extraction is exactly the set
\* of non-empty first-column values of the data rows of the most recent
\* block of the rows read; no banner, header or id of an older block is in it
C23_MostRecentBlockIds ==
    (prog = "main" /\ diffed = "county") => existing_ids = TopBlockIds(existing)

\* a row without any text
IsBlankRow(r) == \A k \in 1..Len(r) : r[k] = ""

\* vals is a concatenation of blocks, each a banner row, a header row, at
\* least one data row and a blank separator row (which the API does not
\* return for the last block)
RECURSIVE WellFormedBlocks(_)
WellFormedBlocks(vals) ==
    \/ vals = <<>>
    \/ /\ Len(vals) >= 3
       /\ IsBanner(vals[1]) /\ Len(vals[1]) = 1
       /\ IsHeader(vals[2])
       /\ LET blanks == { k \in 3..Len(vals) : IsBlankRow(vals[k]) }
              stop == IF blanks = {} THEN Len(vals) + 1 ELSE Min(blanks)
          IN  /\ stop > 3
              /\ \A k \in 3..(stop - 1) : ~IsBanner(vals[k]) /\ ~IsHeader(vals[k])
              /\ WellFormedBlocks(SubSeq(vals, stop + 1, Len(vals)))

\* the write_values call of a county's prepend_snapshot returns; existing
\* holds the rows the pass read from the sheet before the call
PrependWritten ==
    /\ prog = "main"
    /\ readOk
    /\ pc = "pp_write"
    /\ wCtx = "county"
    /\ Len(log') > Len(log)
    /\ log'[Len(log) + 1] = Req("write", wSheet, TRUE, {}, Len(wRows))

\* the rows of a county sheet as the API returns them
Persisted(tab) == ApiValues(sheets[tab].grid)

\* C26: every county sheet written by main.py passes alone is a
\* concatenation of well-formed blocks, and a prepend puts the new block
\* (banner, header, new rows, separator) on top of the rows the sheet held
\* when the pass read it, which stay unchanged and in their order
C26_BlocksNewestFirst ==
    /\ [](prog = "main" => \A t \in CountyTabs : WellFormedBlocks(Persisted(t)))
    /\ [][PrependWritten =>
            ApiValues(sheets'[wSheet].grid) =
                ApiValues(BlockOf(county_header(TARGET_COUNTIES[ci]), wRows) \o existing)
         ]_<<winVars, hlVars, mainVars>>

\* every record of the county's batch has its Property ID among the ids
\* extracted from the sheet (ids)
NoNewRecord(ids) == \A k \in 1..Len(df_county) : PidOf(df_county[k]) \in ids

WriteRaised ==
    /\ prog = "main"
    /\ pc \in {"pp_write", "ow_write"}
    /\ Len(log') > Len(log)
    /\ log'[Len(log) + 1] = Req("write", wSheet, FALSE, {}, Len(wRows))

\* C28: when write_values raises in prepend_snapshot, every row the sheet
\* held when the call read it is still in the sheet afterwards; when it
\* raises in overwrite_with_snapshot on a county sheet that held rows, the
\* sheet is not left empty
C28_FailedWriteKeepsRows ==
    [][WriteRaised =>
          /\ pc = "pp_write" =>
                \A k \in 1..Len(existing2) :
                    \E j \in 1..Len(ApiValues(sheets'[wSheet].grid)) :
                        ApiValues(sheets'[wSheet].grid)[j] = existing2[k]
          /\ (pc = "ow_write" /\ wCtx = "county" /\ ~decided.empty) =>
                ApiValues(sheets'[wSheet].grid) # <<>>
      ]_<<winVars, hlVars, mainVars>>

-----------------------------------------------------------------------------
(* main.py: scrape_county_sales and goto_with_retry *)

MAX_RETRIES == 5

\* goto_with_retry's default max_retries, which every caller uses
max_retries == 3

\* rows of the list page's table in one attempt
MaxFetchRows == 2

BackoffFlat(k) == 1

\* the argument of asyncio.sleep after failed attempt k: 2 ** attempt
Backoff(k) == 2 ^ k

KeptResults(prev) == prev

\* results = [] of an attempt, whatever an earlier attempt left in results
FreshResults(prev) == <<>>

FetchPids == {"P1", "P2"}

\* what the list page may show in an attempt; the site may change between
\* attempts
FetchTables == SeqsUpTo(FetchPids, MaxFetchRows)

Slept(who, k) == Append(sleeps, [by |-> who, attempt |-> k, secs |-> Backoff(k)])

\* the except branch of scrape_county_sales and what follows it: sleep
\* 2 ** attempt, then the next attempt, or after the last one the final
\* return []; slept is the sleep log so far, lost the rows the attempt had
\* appended. The attempt's rows and n are not read again.
Except(slept, lost) ==
    /\ sleeps' = Append(slept, [by |-> "scrape", attempt |-> attempt,
                                secs |-> Backoff(attempt)])
    /\ failedRows' = (failedRows \/ lost > 0)
    /\ IF attempt + 1 < MAX_RETRIES
       THEN /\ attempt' = attempt + 1
            /\ attempts' = attempts + 1
            /\ f_pc' = "goto"
            /\ g_attempt' = 0
            /\ last_exc' = FALSE
            /\ UNCHANGED fRet
       ELSE /\ f_pc' = "returned"
            /\ fRet' = <<>>
            /\ UNCHANGED <<attempt, attempts, g_attempt, last_exc>>
    /\ fTable' = <<>>
    /\ fIdx' = 0
    /\ UNCHANGED results

\* scrape_county_sales(page, county) is called: the first attempt begins
FetchStart ==
    /\ f_pc = "idle"
    /\ f_pc' = "goto"
    /\ attempts' = 1
    /\ UNCHANGED <<attempt, g_attempt, last_exc, navs, sleeps, fTable, fIdx,
                   results, failedRows, fRet>>
    /\ UNCHANGED notFetch

\* one round of goto_with_retry's loop on the list page: page.goto answers
\* 2xx ("ok"), answers another status or nothing ("status"), or raises
GotoStep ==
    /\ f_pc = "goto"
    /\ navs' = (IF g_attempt = 0 THEN 0 ELSE navs) + 1
    /\ \E out \in {"ok", "status", "raise"} :
          LET exc == last_exc \/ out = "raise"
              slept == Slept("goto", g_attempt)
          IN  IF out = "ok"
              THEN /\ f_pc' = "loaded"
                   /\ UNCHANGED <<attempt, g_attempt, last_exc, attempts, sleeps,
                                  fTable, fIdx, results, failedRows, fRet>>
              ELSE IF g_attempt + 1 < max_retries
              THEN /\ g_attempt' = g_attempt + 1
                   /\ last_exc' = exc
                   /\ sleeps' = slept
                   /\ UNCHANGED <<f_pc, attempt, attempts, fTable, fIdx, results,
                                  failedRows, fRet>>
              ELSE IF exc
              THEN Except(slept, 0)
              ELSE /\ f_pc' = "loaded"
                   /\ last_exc' = exc
                   /\ sleeps' = slept
                   /\ UNCHANGED <<attempt, g_attempt, attempts, fTable, fIdx,
                                  results, failedRows, fRet>>
    /\ UNCHANGED notFetch

\* after the navigation: wait_for_selector times out ("timeout": return []),
\* another call raises ("error"), get_table_columns finds no column
\* ("nocols": return []), or the row loop begins on the table shown
LoadedStep ==
    /\ f_pc = "loaded"
    /\ \E out \in {"timeout", "error", "nocols", "table"} :
          CASE out \in {"timeout", "nocols"} ->
                  /\ f_pc' = "returned"
                  /\ fRet' = <<>>
                  /\ UNCHANGED <<attempt, g_attempt, last_exc, attempts, sleeps,
                                 fTable, fIdx, results, failedRows>>
            [] out = "error" -> Except(sleeps, 0)
            [] out = "table" ->
                  /\ \E t \in FetchTables : fTable' = t
                  /\ fIdx' = 0
                  /\ results' = FreshResults(results)
                  /\ f_pc' = "rows"
                  /\ UNCHANGED <<attempt, g_attempt, last_exc, attempts, sleeps,
                                 failedRows, fRet>>
    /\ UNCHANGED navs
    /\ UNCHANGED notFetch

\* one round of the row loop: the row is read and appended (get_details_data
\* and safe_get_cell_text swallow their errors), or reading its link raises
RowStep ==
    /\ f_pc = "rows"
    /\ fIdx < Len(fTable)
    /\ \E out \in {"ok", "raise"} :
          IF out = "ok"
          THEN /\ results' = Append(results, [pid |-> fTable[fIdx + 1],
                                              built |-> attempt])
               /\ fIdx' = fIdx + 1
               /\ UNCHANGED <<f_pc, attempt, g_attempt, last_exc, attempts,
                              sleeps, fTable, failedRows, fRet>>
          ELSE Except(sleeps, fIdx)
    /\ UNCHANGED navs
    /\ UNCHANGED notFetch

\* return results at the end of the row loop
FetchReturn ==
    /\ f_pc = "rows"
    /\ fIdx = Len(fTable)
    /\ f_pc' = "returned"
    /\ fRet' = results
    /\ UNCHANGED <<attempt, g_attempt, last_exc, navs, attempts, sleeps, fTable,
                   fIdx, results, failedRows>>
    /\ UNCHANGED notFetch

NextFetch ==
    \/ FetchStart
    \/ GotoStep
    \/ LoadedStep
    \/ RowStep
    \/ FetchReturn

-----------------------------------------------------------------------------
(* main.py: properties of scrape_county_sales *)

\* the sleeps of scrape_county_sales itself, in order
ScrapeSleeps == SelectSeq(sleeps, LAMBDA e : e.by = "scrape")

\* scrape_county_sales gave up after its last attempt
Exhausted == f_pc = "returned" /\ Len(ScrapeSleeps) = MAX_RETRIES

C22_Bounded ==
    /\ navs <= max_retries
    /\ attempts <= MAX_RETRIES
    /\ \A k \in 1..Len(sleeps) :
          /\ sleeps[k].secs = 2 ^ sleeps[k].attempt
          /\ sleeps[k].by = "goto" => sleeps[k].attempt < max_retries
    /\ \A k \in 1..Len(ScrapeSleeps) : ScrapeSleeps[k].attempt = k - 1
    /\ f_pc # "idle" =>
          /\ Len(ScrapeSleeps) \in {attempts - 1, attempts}
          /\ Len(ScrapeSleeps) = attempts => Exhausted
    /\ Exhausted => fRet = <<>>

\* C22: fetching one county terminates after a bounded number of attempts:
\* a goto_with_retry call makes at most max_retries navigations,
\* scrape_county_sales starts at most MAX_RETRIES attempts, each failed
\* attempt is followed by a sleep of 2 ** attempt seconds, and after the
\* last failed attempt scrape_county_sales returns the empty list
C22_BoundedRetries == []C22_Bounded /\ <>(f_pc = "returned")

\* all attempts failed, the last one after three failed navigations
C22_Witness ==
    /\ Exhausted
    /\ navs = max_retries
    /\ sleeps[Len(sleeps) - 1] = [by |-> "goto", attempt |-> 2, secs |-> 4]
    /\ sleeps[Len(sleeps)] = [by |-> "scrape", attempt |-> 4, secs |-> 16]

\* C30: the list scrape_county_sales returns is empty or is the complete row
\* list of the one attempt that ran to the end: one row per row of the
\* table that attempt saw, in table order, each appended by that attempt
C30_AllOrNothing ==
    f_pc = "returned" =>
        \/ fRet = <<>>
        \/ /\ fIdx = Len(fTable)
           /\ Len(fRet) = Len(fTable)
           /\ \A k \in 1..Len(fRet) :
                 fRet[k] = [pid |-> fTable[k], built |-> attempt]

\* a later attempt returned its rows after an earlier one had failed with
\* rows already appended
C30_Witness ==
    /\ f_pc = "returned"
    /\ fRet # <<>>
    /\ failedRows
    /\ attempt > 0

-----------------------------------------------------------------------------
(* main.py: two passes in prepend_snapshot on the same sheet *)

Passes == {1, 2}

RaceHeader == county_header(TARGET_COUNTIES[1])

RaceRow(pid) == <<pid, "12 Main", "Doe", "01/15/2025", "$1">>

\* the rows the sheet may hold before the two passes: nothing, one block
\* or two blocks, as earlier passes left them
RaceHistories ==
    { <<>>,
      <<BannerOld, RaceHeader, RaceRow("P1")>>,
      <<BannerNew, RaceHeader, RaceRow("P2"), <<"">>,
        BannerOld, RaceHeader, RaceRow("P1")>> }

\* new_rows of the two passes
RaceBatches ==
    { << <<RaceRow("P3")>>, <<RaceRow("P4")>> >>,
      << <<RaceRow("P3"), RaceRow("P5")>>, <<RaceRow("P4")>> >>,
      << <<RaceRow("P3")>>, <<RaceRow("P3")>> >> }

InitRace ==
    /\ rHistory \in RaceHistories
    /\ rSheet = rHistory
    /\ r_pc = <<"read", "read">>
    /\ rExisting = << <<>>, <<>> >>
    /\ rBatch \in RaceBatches

\* existing = self.get_values(sheet_name, "A:Z") of pass p
RaceRead(p) ==
    /\ r_pc[p] = "read"
    /\ rExisting' = [rExisting EXCEPT ![p] = get_values(rSheet, TRUE)]
    /\ r_pc' = [r_pc EXCEPT ![p] = "clear"]
    /\ UNCHANGED <<rSheet, rHistory, rBatch>>
    /\ UNCHANGED notRace

\* self.clear(sheet_name, "A:Z") of pass p
RaceClear(p) ==
    /\ r_pc[p] = "clear"
    /\ rSheet' = clear(rSheet, TRUE)
    /\ r_pc' = [r_pc EXCEPT ![p] = "write"]
    /\ UNCHANGED <<rHistory, rExisting, rBatch>>
    /\ UNCHANGED notRace

\* self.write_values(sheet_name, values, "A1") of pass p, with
\* values = payload + existing
RaceWrite(p) ==
    /\ r_pc[p] = "write"
    /\ rSheet' = ApiUpdate(rSheet, BlockOf(RaceHeader, rBatch[p]) \o rExisting[p])
    /\ r_pc' = [r_pc EXCEPT ![p] = "done"]
    /\ UNCHANGED <<rHistory, rExisting, rBatch>>
    /\ UNCHANGED notRace

NextRace ==
    \/ \E p \in Passes : RaceRead(p)
    \/ \E p \in Passes : RaceClear(p)
    \/ \E p \in Passes : RaceWrite(p)

\* the block of pass p as it is written
RaceBlock(p) == BlockOf(RaceHeader, rBatch[p])

\* C29: when the two passes have returned, the sheet holds the blocks of
\* both passes, in one order or the other, above the rows it held before,
\* each once
C29_NoLostUpdate ==
    (r_pc = <<"done", "done">> /\ rBatch # << <<>>, <<>> >>) =>
        ApiValues(rSheet) \in
            { ApiValues(RaceBlock(1) \o RaceBlock(2) \o rHistory),
              ApiValues(RaceBlock(2) \o RaceBlock(1) \o rHistory) }

-----------------------------------------------------------------------------
(* The specifications *)

\* the parts of the state a specification does not use
WinIdle ==
    /\ clock = Dt(<<2025, 1, 1>>, 12, 0)
    /\ ticks = 0
    /\ wIn = NoCall
    /\ wOut = [done |-> FALSE, hl |-> FALSE, sc |-> FALSE]
    /\ s_pc = "idle"
    /\ sTable = <<>>
    /\ sIdx = 0
    /\ sOut = <<>>
    /\ sRefs = <<>>

HLIdle ==
    /\ hlSheet = <<>>
    /\ hl_pc = "start"
    /\ hlRows = <<>>
    /\ hlKeys = {}
    /\ hlReadOk = TRUE
    /\ hlNewKeys = {}
    /\ hlRet = <<0, 0>>
    /\ hlFormat = {}
    /\ hlWrites = 0

FetchIdle ==
    /\ f_pc = "idle"
    /\ attempt = 0
    /\ g_attempt = 0
    /\ last_exc = FALSE
    /\ navs = 0
    /\ attempts = 0
    /\ sleeps = <<>>
    /\ fTable = <<>>
    /\ fIdx = 0
    /\ results = <<>>
    /\ failedRows = FALSE
    /\ fRet = <<>>

RaceIdle ==
    /\ rSheet = <<>>
    /\ rHistory = <<>>
    /\ r_pc = <<"done", "done">>
    /\ rExisting = << <<>>, <<>> >>
    /\ rBatch = << <<>>, <<>> >>

vars == <<winVars, hlVars, mainVars, fetchVars, raceVars>>

InitEval == InitWin /\ HLIdle /\ MainIdle /\ FetchIdle /\ RaceIdle

InitRows == InitScrape /\ HLIdle /\ MainIdle /\ FetchIdle /\ RaceIdle

InitSheet == InitHL /\ WinIdle /\ MainIdle /\ FetchIdle /\ RaceIdle

InitDates == InitBadDates /\ HLIdle /\ MainIdle /\ FetchIdle /\ RaceIdle

Init == InitMain /\ WinIdle /\ HLIdle /\ FetchIdle /\ RaceIdle

InitCall == FetchIdle /\ WinIdle /\ HLIdle /\ MainIdle /\ RaceIdle

InitTwoPasses == InitRace /\ WinIdle /\ HLIdle /\ MainIdle /\ FetchIdle

\* the window evaluator as a function of (date string, reference datetime)
SpecWin == InitEval /\ [][NextWin]_vars

\* scraper.py's scrape_county_sales under an advancing wall clock
SpecScrape == InitRows /\ [][NextScrape]_vars

\* both window evaluators and scraper.py's row loop on unreadable dates
SpecDates == InitDates /\ [][NextDates]_vars

\* highlighting.py's SheetsClient on one sheet
SpecHL == InitSheet /\ [][NextHL]_vars

\* one call of main.py's scrape_county_sales; every await of the call
\* returns or raises within its timeout
SpecFetch == InitCall /\ [][NextFetch]_vars /\ WF_vars(NextFetch)

\* two passes inside main.py's prepend_snapshot on one sheet, their requests
\* in any order
SpecRace == InitTwoPasses /\ [][NextRace]_vars

\* run() of main.py or of main_lightweight.py, pass after pass, over one
\* spreadsheet
Spec == Init /\ [][Next]_vars

=============================================================================
